---------------------------- MODULE Spec2Model ----------------------------
(***************************************************************************)
(* Verification model of goefidash (Speeduino dashboard core).             *)
(*                                                                         *)
(* The program is a set of goroutines sharing a few guarded cells:         *)
(*   - connectWithRetry  (cmd/goefidash/main.go)  reconnect supervisor     *)
(*   - Server.pollLoop   (internal/server)        ECU poller, GPS poller   *)
(*                                                and broadcast ticker     *)
(*   - Server.handleWS / Server.broadcast         subscriber fan-out       *)
(*   - Server.updateOdometer / handleResetTrip    odometer                 *)
(*   - Speeduino.RequestData (internal/ecu)       ECU driver poll          *)
(*                                                                         *)
(* Each group of goroutines has its own specification (SpecSup, SpecFan,   *)
(* SpecPoll, SpecDrv ...) over the one set of variables below; a           *)
(* specification leaves the variables of the other groups unchanged.       *)
(*                                                                         *)
(* Units: time in whole seconds, distance in whole metres, speed in whole  *)
(* km/h.                                                                   *)
(***************************************************************************)
EXTENDS Integers, Sequences, FiniteSets, TLC

(***************************************************************************)
(* Bounds of the model (not program constants).                            *)
(***************************************************************************)
\* connectWithRetry retries forever; the model stops failing Connect after
\* this many consecutive failures (the cap of 60 s is reached at the 7th).
MaxFailures == 8
\* Capacity of a subscriber's send channel in the model. The program uses
\* make(chan []byte, 64) (server.go handleWS); the fan-out logic only
\* distinguishes "full" from "has room", so a small capacity stands for 64.
SendCap == 2
\* NMEAProvider.Read scans up to 20 lines per call (`i < 20`); the model scans
\* at most this many.
MaxReadLines == 2
\* The odometer grows without bound; the model stops accumulating beyond this
\* many metres.
MaxOdo == 6
\* An odometer file found at startup has at most this many lines.
MaxFileLines == 3

VARIABLES
    \* ---- connectWithRetry, one instance per device (main.go:65, main.go:82)
    supPc,          \* [Devices -> {"top","connect","wait","done"}]
    delay,          \* [Devices -> Nat]   local `delay`, in seconds
    attempt,        \* [Devices -> Nat]   local `attempt`
    timerFired,     \* [Devices -> BOOLEAN] time.After(delay) has fired
    connectCalls,   \* [Devices -> Nat]   number of c.Connect() calls started
    cancelled       \* ctx.Done() is closed (shared cancellation signal)

VARIABLES
    \* ---- Server: subscribers and fan-out (handleWS, handleConfig, broadcast)
    clients,        \* s.clients: set of registered *wsClient
    send,           \* [Clients -> Seq(Kinds)]  contents of client.send
    chClosed,       \* [Clients -> BOOLEAN]     close(client.send) was called
    wsPc,           \* [Clients -> {"new","reg","run","lockDel","removed",
                    \*              "closed"}]
    writerOn,       \* [Clients -> BOOLEAN]     writer goroutine is in its loop
    connDropped,    \* [Clients -> BOOLEAN]     conn is closed or the peer is gone
    bPc,            \* [Broadcasters -> {"idle","send"}] "send": inside the
                    \*   RLock'ed loop of Server.broadcast
    bTodo,          \* [Broadcasters -> SUBSET Clients] clients the range loop
                    \*   has not visited yet
    dropped,        \* [Broadcasters -> SUBSET Clients] clients for which the
                    \*   current broadcast took the `default:` branch
    sendPanic       \* a send on a closed channel happened (Go panics)

VARIABLES
    \* ---- Server.pollLoop: latest cells and the frame last handed to broadcast
    lastECU,        \* local lastECU *ecu.DataFrame: Nil or a frame value
    okECU,          \* result of the most recent RequestData that returned no error
    lastGPS,        \* local lastGPS *gps.Data: Nil or Ref (pointer to n.last)
    okGPS,          \* value of *data when the most recent Read returned no error
    lastFrame       \* the Frame built by the last broadcast tick that published

VARIABLES
    \* ---- gps.NMEAProvider and the GPS goroutine of pollLoop
    gpsScannerSet,  \* n.scanner != nil (Connect succeeded)
    gpsLast,        \* *n.last: the one gps.Data the provider mutates in place
    gpsPc,          \* "idle" | "read" (the GPS goroutine is inside Read)
    gotRMC,         \* local gotRMC of Read
    gotGGA,         \* local gotGGA of Read
    nLines,         \* local i of Read: lines scanned so far
    scanStopped     \* n.scanner.Scan() has returned false: a bufio.Scanner
                    \*   that met an error or the end of its input (for this
                    \*   port: 100 read timeouts in a row, or the port gone)
                    \*   keeps the error and returns false ever after

VARIABLES
    \* ---- Server odometer (fields of Server guarded by odoMu) and its file
    odoTotal,       \* s.odoTotal, metres
    odoTrip,        \* s.odoTrip, metres
    lastGPSPos,     \* (s.lastGPSLat, s.lastGPSLon): a point of the meridian, metres
    lastGPSValid,   \* s.lastGPSValid
    odoFile,        \* the file s.odoPath: [exists, lines], lines a sequence
                    \*   of texts (the file's text without the newlines)
    svPc,           \* [Savers -> {"idle","snap","write","opened","done"}]
                    \*   position of the caller in saveOdometer
    svSnap,         \* [Savers -> Nil or [total, trip]] locals total, trip
    svFinal,        \* [Savers -> BOOLEAN] the caller took its `<-ctx.Done()`
                    \*   branch: this saveOdometer is its last
    written,        \* Nil, or [total]: the total (metres) of the last
                    \*   write of the file that saveOdometer completed
    flushed,        \* Nil, or the [total, trip] that the saveOdometer of Run's
                    \*   shutdown goroutine wrote
    runPc           \* "new" (before server.New) | "serving" (inside
                    \*   ListenAndServe) | "returned" | "failed"

VARIABLES
    \* ---- ecu.Speeduino (fields guarded by s.mu) and its last poll
    port,           \* s.port: "nil" or "open"
    connected,      \* s.connected
    proto,          \* s.proto: the detected protocolMode
    protocol,       \* s.protocol: the configured preference
    drvRet,         \* what the last RequestData returned: Nil before the first
                    \*   call, then a DataFrame or an error
    connRet,        \* what the last Connect returned: Nil before the first
                    \*   call, then [ok |-> TRUE] or an error; [running |->
                    \*   TRUE] while a call is between its two parts
    txLog,          \* the byte sequences handed to port.Write by the last
                    \*   Connect or RequestData, in order
    lastIn          \* what the tty did during that call: Nil before the first
                    \*   call, [opened, q, r, n, a] for Connect, [wrOk, rx]
                    \*   for RequestData

supVars == <<supPc, delay, attempt, timerFired, connectCalls, cancelled>>
fanVars == <<clients, send, chClosed, wsPc, writerOn, connDropped, bPc, bTodo,
             dropped, sendPanic>>
cellVars == <<lastECU, okECU, lastGPS, okGPS, lastFrame>>
gpsVars == <<gpsScannerSet, gpsLast, gpsPc, gotRMC, gotGGA, nLines, scanStopped>>
odoVars == <<odoTotal, odoTrip, lastGPSPos, lastGPSValid>>
saveVars == <<odoFile, svPc, svSnap, svFinal, flushed, written, runPc>>
pollVars == <<cellVars, gpsVars, odoVars, saveVars>>
drvVars == <<port, connected, proto, protocol, drvRet, connRet, txLog, lastIn>>

vars == <<supVars, fanVars, pollVars, drvVars>>

\* Absent values are records of their own, so that they compare with the
\* records they stand in for.
Nil == [nil |-> TRUE]
Ref == [ref |-> TRUE]
Absent == [exists |-> FALSE, lines |-> <<>>]

(***************************************************************************)
(* Reconnect supervisor: connectWithRetry (main.go:101-138)                *)
(***************************************************************************)
Devices == {"ECU", "GPS"}

\* main.go:102  delay := 1 * time.Second
initialDelay == 1
\* main.go:103  maxDelay := 60 * time.Second
maxDelay == 60

\* main.go:129-132  delay *= 2; if delay > maxDelay { delay = maxDelay }
NextDelayNoCap(d) == d * 2
NextDelay(d) == IF d * 2 > maxDelay THEN maxDelay ELSE d * 2

\* main.go:107-111  select { case <-ctx.Done(): return; default: }
SeesCancelNever(c) == FALSE
SeesCancel(c) == c

SupOthers == UNCHANGED <<fanVars, pollVars, drvVars>>

InitSup ==
    /\ supPc = [d \in Devices |-> "top"]
    /\ delay = [d \in Devices |-> initialDelay]
    /\ attempt = [d \in Devices |-> 0]
    /\ timerFired = [d \in Devices |-> FALSE]
    /\ connectCalls = [d \in Devices |-> 0]
    /\ cancelled = FALSE

\* main.go:107-113: top of the loop. The non-blocking select returns when the
\* context is done; otherwise the supervisor goes on to call c.Connect().
SupTop(d) ==
    /\ supPc[d] = "top"
    /\ IF SeesCancel(cancelled)
         THEN /\ supPc' = [supPc EXCEPT ![d] = "done"]
              /\ UNCHANGED connectCalls
         ELSE /\ supPc' = [supPc EXCEPT ![d] = "connect"]
              /\ connectCalls' = [connectCalls EXCEPT ![d] = @ + 1]
    /\ UNCHANGED <<delay, attempt, timerFired, cancelled>>
    /\ SupOthers

\* main.go:113-121: c.Connect() returned an error; attempt++ and the
\* supervisor enters the select of lines 123-127 with time.After(delay).
SupConnectFail(d) ==
    /\ supPc[d] = "connect"
    /\ attempt[d] < MaxFailures
    /\ attempt' = [attempt EXCEPT ![d] = @ + 1]
    /\ timerFired' = [timerFired EXCEPT ![d] = FALSE]
    /\ supPc' = [supPc EXCEPT ![d] = "wait"]
    /\ UNCHANGED <<delay, connectCalls, cancelled>>
    /\ SupOthers

\* main.go:133-136: c.Connect() returned nil; the supervisor returns.
SupConnectOk(d) ==
    /\ supPc[d] = "connect"
    /\ supPc' = [supPc EXCEPT ![d] = "done"]
    /\ UNCHANGED <<delay, attempt, timerFired, connectCalls, cancelled>>
    /\ SupOthers

\* The runtime timer behind time.After(delay) fires once `delay` has passed.
TimerExpire(d) ==
    /\ supPc[d] = "wait"
    /\ ~timerFired[d]
    /\ timerFired' = [timerFired EXCEPT ![d] = TRUE]
    /\ UNCHANGED <<supPc, delay, attempt, connectCalls, cancelled>>
    /\ SupOthers

\* main.go:124-125: case <-ctx.Done(): return
SupWaitCancelled(d) ==
    /\ supPc[d] = "wait"
    /\ SeesCancel(cancelled)
    /\ supPc' = [supPc EXCEPT ![d] = "done"]
    /\ UNCHANGED <<delay, attempt, timerFired, connectCalls, cancelled>>
    /\ SupOthers

\* main.go:126-132: case <-time.After(delay): then delay doubles up to maxDelay
\* and the loop starts over.
SupWaitElapsed(d) ==
    /\ supPc[d] = "wait"
    /\ timerFired[d]
    /\ delay' = [delay EXCEPT ![d] = NextDelay(@)]
    /\ supPc' = [supPc EXCEPT ![d] = "top"]
    /\ UNCHANGED <<attempt, timerFired, connectCalls, cancelled>>
    /\ SupOthers

\* main.go:44-48: the signal goroutine calls cancel().
Cancel ==
    /\ ~cancelled
    /\ cancelled' = TRUE
    /\ UNCHANGED <<supPc, delay, attempt, timerFired, connectCalls>>
    /\ SupOthers

NextSup ==
    \/ \E d \in Devices : SupTop(d)
    \/ \E d \in Devices : SupConnectFail(d)
    \/ \E d \in Devices : SupConnectOk(d)
    \/ \E d \in Devices : TimerExpire(d)
    \/ \E d \in Devices : SupWaitCancelled(d)
    \/ \E d \in Devices : SupWaitElapsed(d)
    \/ Cancel


(***************************************************************************)
(* Subscribers and fan-out: Server.handleWS, Server.handleConfig,          *)
(* Server.broadcast (internal/server/server.go)                            *)
(***************************************************************************)
\* The WebSocket connections accepted over the life of the server; handleWS
\* runs once for each.
Clients == {"a", "b"}

\* The two callers of Server.broadcast: the broadcast tick of pollLoop and the
\* POST branch of handleConfig. They run on different goroutines and may hold
\* the read lock of clientsMu at the same time.
Broadcasters == {"tick", "post"}

\* What a queued message is: the initial configuration frame of handleWS, a
\* data frame of a broadcast tick, a configuration frame of handleConfig.
Kinds == {"init", "data", "conf"}

KindOf(b) == IF b = "tick" THEN "data" ELSE "conf"

\* clientsMu.Lock() succeeds only while no broadcast holds clientsMu.RLock().
NoReader == \A b \in Broadcasters : bPc[b] = "idle"

\* sync.RWMutex: while a goroutine is blocked in clientsMu.Lock(), a new
\* clientsMu.RLock() waits until that writer has had the lock. The goroutine
\* that can be seen blocked is the reader goroutine of a subscriber, in its
\* deferred function; handleWS calls Lock and inserts in one step.
WriterWaiting == \E c \in DOMAIN wsPc : wsPc[c] = "lockDel"

\* server.go broadcast: `select { case client.send <- data: default: }` never
\* waits, whatever the state of the channel.
CanSendBlocking(q) == Len(q) < SendCap
CanSend(q) == TRUE

\* The channel after the select: the frame is appended when there is room and
\* dropped otherwise.
TrySend(q, m) == IF Len(q) < SendCap THEN Append(q, m) ELSE q

FanOthers == UNCHANGED <<supVars, drvVars>>

InitFan ==
    /\ clients = {}
    /\ send = [c \in Clients |-> << >>]
    /\ chClosed = [c \in Clients |-> FALSE]
    /\ wsPc = [c \in Clients |-> "new"]
    /\ writerOn = [c \in Clients |-> FALSE]
    /\ connDropped = [c \in Clients |-> FALSE]
    /\ bPc = [b \in Broadcasters |-> "idle"]
    /\ bTodo = [b \in Broadcasters |-> {}]
    /\ dropped = [b \in Broadcasters |-> {}]
    /\ sendPanic = FALSE

\* handleWS, first part: the connection is upgraded, the client is created with
\* an empty channel and inserted into s.clients under clientsMu.Lock().
HandleWSRegister(c) ==
    /\ wsPc[c] = "new"
    /\ NoReader
    /\ clients' = clients \cup {c}
    /\ wsPc' = [wsPc EXCEPT ![c] = "reg"]
    /\ UNCHANGED <<send, chClosed, writerOn, connDropped, bPc, bTodo, dropped,
                   sendPanic, pollVars>>
    /\ FanOthers

\* handleWS, second part: the initial configuration frame is sent with a plain
\* (blocking) channel send, then the writer and the reader goroutines start.
HandleWSSendConfig(c) ==
    /\ wsPc[c] = "reg"
    /\ Len(send[c]) < SendCap
    /\ send' = [send EXCEPT ![c] = Append(@, "init")]
    /\ wsPc' = [wsPc EXCEPT ![c] = "run"]
    /\ writerOn' = [writerOn EXCEPT ![c] = TRUE]
    /\ UNCHANGED <<clients, chClosed, connDropped, bPc, bTodo, dropped,
                   sendPanic, pollVars>>
    /\ FanOthers

\* Writer goroutine: one message is received from client.send and written to
\* the connection.
WriterDeliver(c) ==
    /\ writerOn[c]
    /\ send[c] # << >>
    /\ send' = [send EXCEPT ![c] = Tail(@)]
    /\ UNCHANGED <<clients, chClosed, wsPc, writerOn, connDropped, bPc, bTodo,
                   dropped, sendPanic, pollVars>>
    /\ FanOthers

\* Writer goroutine: conn.WriteMessage fails; the loop breaks and the deferred
\* conn.Close() runs.
WriterFail(c) ==
    /\ writerOn[c]
    /\ send[c] # << >>
    /\ send' = [send EXCEPT ![c] = Tail(@)]
    /\ writerOn' = [writerOn EXCEPT ![c] = FALSE]
    /\ connDropped' = [connDropped EXCEPT ![c] = TRUE]
    /\ UNCHANGED <<clients, chClosed, wsPc, bPc, bTodo, dropped, sendPanic,
                   pollVars>>
    /\ FanOthers

\* Writer goroutine: the channel is closed and drained, `range` ends and the
\* deferred conn.Close() runs.
WriterDone(c) ==
    /\ writerOn[c]
    /\ send[c] = << >>
    /\ chClosed[c]
    /\ writerOn' = [writerOn EXCEPT ![c] = FALSE]
    /\ connDropped' = [connDropped EXCEPT ![c] = TRUE]
    /\ UNCHANGED <<clients, send, chClosed, wsPc, bPc, bTodo, dropped,
                   sendPanic, pollVars>>
    /\ FanOthers

\* The peer goes away: conn.ReadMessage will return an error.
PeerDrop(c) ==
    /\ wsPc[c] = "run"
    /\ ~connDropped[c]
    /\ connDropped' = [connDropped EXCEPT ![c] = TRUE]
    /\ UNCHANGED <<clients, send, chClosed, wsPc, writerOn, bPc, bTodo,
                   dropped, sendPanic, pollVars>>
    /\ FanOthers

\* Reader goroutine: conn.ReadMessage returned an error, the loop breaks and
\* the deferred function calls clientsMu.Lock() while a broadcast holds the
\* read lock: the goroutine blocks in Lock.
ReaderFail(c) ==
    /\ wsPc[c] = "run"
    /\ connDropped[c]
    /\ ~NoReader
    /\ wsPc' = [wsPc EXCEPT ![c] = "lockDel"]
    /\ UNCHANGED <<clients, send, chClosed, writerOn, connDropped, bPc, bTodo,
                   dropped, sendPanic, pollVars>>
    /\ FanOthers

\* The deferred function of the reader goroutine if it deleted the subscriber
\* without taking clientsMu.
ReaderRemoveUnlocked(c) ==
    /\ \/ wsPc[c] = "run" /\ connDropped[c]
       \/ wsPc[c] = "lockDel"
    /\ clients' = clients \ {c}
    /\ wsPc' = [wsPc EXCEPT ![c] = "removed"]
    /\ UNCHANGED <<send, chClosed, writerOn, connDropped, bPc, bTodo, dropped,
                   sendPanic, pollVars>>
    /\ FanOthers

\* Reader goroutine, deferred function: clientsMu.Lock() is granted, at once
\* after the failed ReadMessage or after the wait, and the client is deleted
\* from s.clients.
ReaderRemove(c) ==
    /\ \/ wsPc[c] = "run" /\ connDropped[c]
       \/ wsPc[c] = "lockDel"
    /\ NoReader
    /\ clients' = clients \ {c}
    /\ wsPc' = [wsPc EXCEPT ![c] = "removed"]
    /\ UNCHANGED <<send, chClosed, writerOn, connDropped, bPc, bTodo, dropped,
                   sendPanic, pollVars>>
    /\ FanOthers

\* Reader goroutine: after the unlock the deferred function closes the channel.
ReaderClose(c) ==
    /\ wsPc[c] = "removed"
    /\ chClosed' = [chClosed EXCEPT ![c] = TRUE]
    /\ wsPc' = [wsPc EXCEPT ![c] = "closed"]
    /\ UNCHANGED <<clients, send, writerOn, connDropped, bPc, bTodo, dropped,
                   sendPanic, pollVars>>
    /\ FanOthers

\* The variant below lets a new reader in while a writer waits for the lock.
BroadcastBeginNoWait(b) ==
    /\ bPc[b] = "idle"
    /\ bPc' = [bPc EXCEPT ![b] = IF clients = {} THEN "idle" ELSE "send"]
    /\ bTodo' = [bTodo EXCEPT ![b] = clients]
    /\ dropped' = [dropped EXCEPT ![b] = {}]

\* Server.broadcast, entry: the frame is marshalled, clientsMu.RLock() is taken
\* and the range over s.clients starts. With no client the function returns
\* at once.
BroadcastBegin(b) ==
    /\ bPc[b] = "idle"
    /\ ~WriterWaiting
    /\ bPc' = [bPc EXCEPT ![b] = IF clients = {} THEN "idle" ELSE "send"]
    /\ bTodo' = [bTodo EXCEPT ![b] = clients]
    /\ dropped' = [dropped EXCEPT ![b] = {}]

\* handleConfig, POST: the configuration is updated and broadcast.
HandleConfigPost ==
    /\ BroadcastBegin("post")
    /\ UNCHANGED <<clients, send, chClosed, wsPc, writerOn, connDropped,
                   sendPanic, pollVars>>
    /\ FanOthers

\* Server.broadcast, one iteration of the range loop: the non-blocking send to
\* one client.
BroadcastSend(b, c) ==
    /\ bPc[b] = "send"
    /\ c \in bTodo[b]
    /\ CanSend(send[c])
    /\ bTodo' = [bTodo EXCEPT ![b] = @ \ {c}]
    /\ IF chClosed[c]
         THEN /\ sendPanic' = TRUE
              /\ UNCHANGED <<send, dropped>>
         ELSE /\ send' = [send EXCEPT ![c] = TrySend(@, KindOf(b))]
              /\ dropped' = [dropped EXCEPT ![b] =
                                IF send'[c] = send[c] THEN @ \cup {c} ELSE @]
              /\ UNCHANGED sendPanic
    /\ UNCHANGED <<clients, chClosed, wsPc, writerOn, connDropped, bPc, pollVars>>
    /\ FanOthers

\* Server.broadcast, exit: the range loop is over, the deferred RUnlock runs.
BroadcastEnd(b) ==
    /\ bPc[b] = "send"
    /\ bTodo[b] = {}
    /\ bPc' = [bPc EXCEPT ![b] = "idle"]
    /\ dropped' = [dropped EXCEPT ![b] = {}]
    /\ UNCHANGED <<clients, send, chClosed, wsPc, writerOn, connDropped, bTodo,
                   sendPanic, pollVars>>
    /\ FanOthers


(***************************************************************************)
(* Odometer: Server.updateOdometer, haversineKm, handleResetTrip,          *)
(* saveOdometer (internal/server/server.go)                                *)
(***************************************************************************)
\* server.go updateOdometer: `if dist > 0.5` (km), in metres
glitchJump == 500
\* server.go updateOdometer: `if dist > 0.002` (km), in metres
minMove == 2

\* haversineKm for two points of one meridian (dLon = 0): a = sin^2(dLat/2),
\* c = |dLat| and the distance is R * |dLat|, the distance along the meridian.
haversineKm(p, q) == IF p < q THEN q - p ELSE p - q

\* updateOdometer on the odometer o = [total, trip, pos, valid] with the fix at
\* position p; the result is the odometer after the call.
updateOdometerBackwards(o, p) ==
    IF ~o.valid THEN [o EXCEPT !.pos = p, !.valid = TRUE]
    ELSE IF haversineKm(o.pos, p) > minMove
           THEN [o EXCEPT !.total = @ - haversineKm(o.pos, p),
                          !.trip = @ - haversineKm(o.pos, p), !.pos = p]
           ELSE o
updateOdometerGlitchAt(o, p) ==
    IF ~o.valid
      THEN [o EXCEPT !.pos = p, !.valid = TRUE]
      ELSE LET dist == haversineKm(o.pos, p) IN
           IF dist >= glitchJump
             THEN [o EXCEPT !.pos = p]
             ELSE IF dist > minMove
                    THEN [o EXCEPT !.total = @ + dist, !.trip = @ + dist, !.pos = p]
                    ELSE o
updateOdometerTrailing(o, p) ==
    IF ~o.valid
      THEN [o EXCEPT !.pos = p, !.valid = TRUE]
      ELSE LET dist == haversineKm(o.pos, p) IN
           IF dist > glitchJump
             THEN [o EXCEPT !.pos = p]
             ELSE IF dist > minMove
                    THEN [o EXCEPT !.total = @ + dist, !.trip = @ + dist, !.pos = p]
                    ELSE [o EXCEPT !.pos = p]
updateOdometer(o, p) ==
    IF ~o.valid
      THEN [o EXCEPT !.pos = p, !.valid = TRUE]
      ELSE LET dist == haversineKm(o.pos, p) IN
           IF dist > glitchJump
             THEN [o EXCEPT !.pos = p]
             ELSE IF dist > minMove
                    THEN [o EXCEPT !.total = @ + dist, !.trip = @ + dist, !.pos = p]
                    ELSE o

Odo == [total |-> odoTotal, trip |-> odoTrip, pos |-> lastGPSPos,
        valid |-> lastGPSValid]

\* ---- text of the odometer file -------------------------------------------
\* A text is a sequence of characters. saveOdometer prints kilometres with
\* six decimals ("%.6f"), which prints a whole number of metres exactly.
Digits == <<"0", "1", "2", "3", "4", "5", "6", "7", "8", "9">>
IsDigit(c) == \E i \in 1..10 : Digits[i] = c
DigitVal(c) == (CHOOSE i \in 1..10 : Digits[i] = c) - 1
AllDigits(s) == \A i \in 1..Len(s) : IsDigit(s[i])

RECURSIVE Dec(_)
Dec(n) == IF n < 10 THEN <<Digits[n + 1]>>
          ELSE Dec(n \div 10) \o <<Digits[(n % 10) + 1]>>
RECURSIVE Val(_)
Val(s) == IF s = <<>> THEN 0
          ELSE 10 * Val(SubSeq(s, 1, Len(s) - 1)) + DigitVal(s[Len(s)])
PadLeft(s, w) == [i \in 1..(w - Len(s)) |-> "0"] \o s
PadRight(s, w) == s \o [i \in 1..(w - Len(s)) |-> "0"]

\* fmt.Sprintf("%.6f", km) for km = m metres
FormatKm(m) == Dec(m \div 1000) \o <<".">> \o PadLeft(Dec((m % 1000) * 1000), 6)

\* strconv.ParseFloat(text, 64) for the plain decimal forms "123", "1.5",
\* ".5", "5."; every other text of the model is a syntax error. The value is
\* in metres (texts of the model have no digits below the metre).
ParseFloat(s) ==
    LET dots == {i \in 1..Len(s) : s[i] = "."} IN
    IF dots = {}
      THEN IF s # <<>> /\ AllDigits(s)
             THEN [ok |-> TRUE, v |-> 1000 * Val(s)]
             ELSE [ok |-> FALSE, v |-> 0]
      ELSE LET d == CHOOSE i \in dots : TRUE
               int == SubSeq(s, 1, d - 1)
               frac == SubSeq(s, d + 1, Len(s))
           IN IF /\ Cardinality(dots) = 1
                 /\ AllDigits(int) /\ AllDigits(frac)
                 /\ Len(int) + Len(frac) > 0 /\ Len(frac) <= 6
                THEN [ok |-> TRUE,
                      v |-> 1000 * Val(int) + (Val(PadRight(frac, 6)) \div 1000)]
                ELSE [ok |-> FALSE, v |-> 0]

\* strings.Split(strings.TrimSpace(data), "\n"): the lines of the file, and
\* one empty text for an empty file.
SplitLines(f) == IF f.lines = <<>> THEN << <<>> >> ELSE f.lines

\* loadOdometer: the values of s.odoTotal and s.odoTrip after the call on a
\* fresh Server (both fields are 0 before it).
loadOdometer(f) ==
    IF ~f.exists
      THEN [total |-> 0, trip |-> 0]
      ELSE LET parts == SplitLines(f) IN
           [total |-> IF Len(parts) >= 1 /\ ParseFloat(parts[1]).ok
                        THEN ParseFloat(parts[1]).v ELSE 0,
            trip |-> IF Len(parts) >= 2 /\ ParseFloat(parts[2]).ok
                       THEN ParseFloat(parts[2]).v ELSE 0]

\* The text saveOdometer writes: fmt.Sprintf("%.6f\n%.6f\n", total, trip)
SnapshotText(snap) == <<FormatKm(snap.total), FormatKm(snap.trip)>>

\* The goroutines and handlers that call saveOdometer: the 30 s persistence
\* ticker of Run, handleResetTrip and the shutdown goroutine of Run.
Savers == {"ticker", "reset", "shutdown"}

InitOdo ==
    /\ odoTotal = 0
    /\ odoTrip = 0
    /\ lastGPSPos = 0
    /\ lastGPSValid = FALSE
    /\ odoFile = Absent
    /\ svPc = [p \in Savers |-> "idle"]
    /\ svSnap = [p \in Savers |-> Nil]
    /\ svFinal = [p \in Savers |-> FALSE]
    /\ flushed = Nil
    /\ written = Nil
    /\ runPc = "serving"

OdoOthers == UNCHANGED <<supVars, fanVars, drvVars, cellVars, gpsVars>>

\* server.New: the Server is built with zero counters and loadOdometer seeds
\* them from the file.
ServerNew ==
    /\ runPc = "new"
    /\ odoTotal' = loadOdometer(odoFile).total
    /\ odoTrip' = loadOdometer(odoFile).trip
    /\ runPc' = "serving"
    /\ UNCHANGED <<lastGPSPos, lastGPSValid, odoFile, svPc, svSnap, svFinal,
                   flushed, written>>
    /\ OdoOthers

\* handleResetTrip, first part: s.odoTrip = 0 under odoMu; the handler then
\* goes on to saveOdometer.
ResetTripHalf(t) == t \div 2
ResetTrip(t) == 0

HandleResetTrip ==
    /\ runPc = "serving"
    /\ svPc["reset"] = "idle"
    /\ odoTrip' = ResetTrip(odoTrip)
    /\ svPc' = [svPc EXCEPT !["reset"] = "snap"]
    /\ UNCHANGED <<odoTotal, lastGPSPos, lastGPSValid, odoFile, svSnap,
                   svFinal, flushed, written, runPc>>
    /\ OdoOthers

\* saveOdometer, first part: total and trip are copied under odoMu. The
\* persistence ticker enters it on a tick, handleResetTrip after its reset.
SaveSnapshot(p) ==
    /\ runPc = "serving"
    /\ p \in {"ticker", "reset"}
    /\ svPc[p] = IF p = "reset" THEN "snap" ELSE "idle"
    /\ svSnap' = [svSnap EXCEPT ![p] = [total |-> odoTotal, trip |-> odoTrip]]
    /\ svPc' = [svPc EXCEPT ![p] = "write"]
    /\ UNCHANGED <<odoVars, odoFile, svFinal, flushed, written, runPc>>
    /\ OdoOthers

\* The same first part, entered from `case <-ctx.Done():` of the persistence
\* ticker's goroutine or from `<-ctx.Done()` of the shutdown goroutine.
SaveSnapshotOnDone(p) ==
    /\ runPc = "serving"
    /\ p \in {"ticker", "shutdown"}
    /\ cancelled
    /\ svPc[p] = "idle"
    /\ svSnap' = [svSnap EXCEPT ![p] = [total |-> odoTotal, trip |-> odoTrip]]
    /\ svPc' = [svPc EXCEPT ![p] = "write"]
    /\ svFinal' = [svFinal EXCEPT ![p] = TRUE]
    /\ UNCHANGED <<odoVars, odoFile, flushed, written, runPc>>
    /\ OdoOthers

\* Where the caller goes when saveOdometer returns.
AfterSave(p) == IF svFinal[p] THEN "done" ELSE "idle"

\* saveOdometer, second part: os.WriteFile opens the file with
\* O_WRONLY|O_CREATE|O_TRUNC, which leaves it empty; a failed open is logged
\* and leaves the file as it was.
SaveOpen(p, ok) ==
    /\ runPc = "serving"
    /\ svPc[p] = "write"
    /\ IF ok
         THEN /\ odoFile' = [exists |-> TRUE, lines |-> <<>>]
              /\ svPc' = [svPc EXCEPT ![p] = "opened"]
              /\ UNCHANGED svSnap
         ELSE /\ svPc' = [svPc EXCEPT ![p] = AfterSave(p)]
              /\ svSnap' = [svSnap EXCEPT ![p] = Nil]
              /\ UNCHANGED odoFile
    /\ UNCHANGED <<odoVars, svFinal, flushed, written, runPc>>
    /\ OdoOthers

\* saveOdometer, third part: os.WriteFile writes the text at offset 0 and
\* closes the file.
SaveWrite(p) ==
    /\ runPc = "serving"
    /\ svPc[p] = "opened"
    /\ odoFile' = [exists |-> TRUE, lines |-> SnapshotText(svSnap[p])]
    /\ flushed' = IF p = "shutdown" THEN svSnap[p] ELSE flushed
    /\ written' = [total |-> svSnap[p].total]
    /\ svSnap' = [svSnap EXCEPT ![p] = Nil]
    /\ svPc' = [svPc EXCEPT ![p] = AfterSave(p)]
    /\ UNCHANGED <<odoVars, svFinal, runPc>>
    /\ OdoOthers

\* Run's shutdown goroutine, after its saveOdometer: srv.Shutdown makes
\* ListenAndServe return, Run returns and main returns after it.
RunShutdown ==
    /\ runPc = "serving"
    /\ svPc["shutdown"] = "done"
    /\ runPc' = "returned"
    /\ UNCHANGED <<odoVars, odoFile, svPc, svSnap, svFinal, flushed, written>>
    /\ OdoOthers

\* srv.ListenAndServe fails (the address cannot be bound): Run returns the
\* error and main returns.
RunListenFail ==
    /\ runPc = "serving"
    /\ ~cancelled
    /\ runPc' = "failed"
    /\ UNCHANGED <<odoVars, odoFile, svPc, svSnap, svFinal, flushed, written>>
    /\ OdoOthers

(***************************************************************************)
(* pollLoop: ECU goroutine, GPS goroutine with gps.NMEAProvider.Read,      *)
(* broadcast tick, calcSpeed (internal/server/server.go, internal/gps)     *)
(***************************************************************************)
\* Frames RequestData can return; only the field calcSpeed reads is kept.
EcuFrames == {[vss |-> 0], [vss |-> 55]}
EcuErr == [err |-> "poll failed"]
IsErr(r) == "err" \in DOMAIN r

\* pollLoop, ECU goroutine: `if data, err := RequestData(); err == nil
\* { lastECU = data }`: the cell after a poll that returned r.
\* A latest-ECU cell that is cleared by a failed poll.
StoreECUOrClear(cell, r) == IF IsErr(r) THEN Nil ELSE r
StoreECU(cell, r) == IF IsErr(r) THEN cell ELSE r

\* pollLoop, GPS goroutine: `if data.Valid && data.Speed > 1`.
FeedsOdometerAnyFix(fix) == TRUE
FeedsOdometer(fix) == fix.valid /\ fix.speed > 1

\* calcSpeed(ecuData, gpsData); either argument may be Nil.
calcSpeedGpsFirst(e, g) ==
    IF g # Nil /\ g.valid THEN [value |-> g.speed, source |-> "gps"]
    ELSE IF e # Nil /\ e.vss > 0 THEN [value |-> e.vss, source |-> "vss"]
    ELSE [value |-> 0, source |-> "none"]
calcSpeed(e, g) ==
    IF e # Nil /\ e.vss > 0 THEN [value |-> e.vss, source |-> "vss"]
    ELSE IF g # Nil /\ g.valid THEN [value |-> g.speed, source |-> "gps"]
    ELSE [value |-> 0, source |-> "none"]

\* pollLoop: `if ecuSnap != nil || gpsSnap != nil`.
HasSomethingAlways(e, g) == TRUE
HasSomethingEcu(e, g) == e # Nil
HasSomething(e, g) == e # Nil \/ g # Nil

\* math.Round(x*10)/10 on kilometres: to the nearest 100 m.
RoundTenth(m) == ((m + 50) \div 100) * 100

\* What a *gps.Data pointer shows when it is read.
Deref(ptr) == IF ptr = Nil THEN Nil ELSE gpsLast

InitPoll ==
    /\ lastECU = Nil
    /\ okECU = Nil
    /\ lastGPS = Nil
    /\ okGPS = Nil
    /\ lastFrame = Nil
    /\ gpsScannerSet = FALSE
    /\ gpsLast = [valid |-> FALSE, pos |-> 0, speed |-> 0, sats |-> 0]
    /\ gpsPc = "idle"
    /\ gotRMC = FALSE
    /\ gotGGA = FALSE
    /\ nLines = 0
    /\ scanStopped = FALSE

\* ECU goroutine, one tick: RequestData returns r (a frame or an error).
EcuTick(r) ==
    /\ lastECU' = StoreECU(lastECU, r)
    /\ okECU' = IF IsErr(r) THEN okECU ELSE r
    /\ UNCHANGED <<lastGPS, okGPS, lastFrame, gpsVars, odoVars, saveVars>>
    /\ UNCHANGED <<supVars, fanVars, drvVars>>

\* NMEAProvider.Connect succeeded: n.scanner is set.
GpsConnect ==
    /\ ~gpsScannerSet
    /\ gpsScannerSet' = TRUE
    /\ UNCHANGED <<gpsLast, gpsPc, gotRMC, gotGGA, nLines, scanStopped>>
    /\ UNCHANGED <<supVars, fanVars, drvVars, cellVars, odoVars, saveVars>>

\* GPS goroutine, tick while the provider is not connected: Read returns
\* (n.last, error) and the poller drops the result.
GpsTickNotConnected ==
    /\ gpsPc = "idle"
    /\ ~gpsScannerSet
    /\ UNCHANGED <<gpsVars, cellVars, odoVars, saveVars, supVars, fanVars, drvVars>>

\* GPS goroutine, tick: Read is entered (n.mu taken, gotRMC = gotGGA = false).
GpsReadBegin ==
    /\ gpsPc = "idle"
    /\ gpsScannerSet
    /\ gpsPc' = "read"
    /\ gotRMC' = FALSE
    /\ gotGGA' = FALSE
    /\ nLines' = 0
    /\ UNCHANGED <<gpsScannerSet, gpsLast, scanStopped>>
    /\ UNCHANGED <<supVars, fanVars, drvVars, cellVars, odoVars, saveVars>>

\* Read: loop condition `i < 20 && !(gotRMC && gotGGA)`; the model scans at
\* most MaxReadLines lines per call.
ReadLoopOn == gpsPc = "read" /\ nLines < MaxReadLines /\ ~(gotRMC /\ gotGGA)

\* Read scans a valid RMC sentence r: parseRMC writes Valid, and position and
\* speed only when the status is 'A'.
GpsReadRMC(r) ==
    /\ ReadLoopOn /\ ~scanStopped
    /\ gpsLast' = IF r.valid
                    THEN [gpsLast EXCEPT !.valid = TRUE, !.pos = r.pos,
                                         !.speed = r.speed]
                    ELSE [gpsLast EXCEPT !.valid = FALSE]
    /\ gotRMC' = TRUE
    /\ nLines' = nLines + 1
    /\ UNCHANGED <<gpsScannerSet, gpsPc, gotGGA, scanStopped>>
    /\ UNCHANGED <<supVars, fanVars, drvVars, cellVars, odoVars, saveVars>>

\* Read scans a valid GGA sentence: parseGGA writes the fix quality fields.
GpsReadGGA(n) ==
    /\ ReadLoopOn /\ ~scanStopped
    /\ gpsLast' = [gpsLast EXCEPT !.sats = n]
    /\ gotGGA' = TRUE
    /\ nLines' = nLines + 1
    /\ UNCHANGED <<gpsScannerSet, gpsPc, gotRMC, scanStopped>>
    /\ UNCHANGED <<supVars, fanVars, drvVars, cellVars, odoVars, saveVars>>

\* Read scans a line it skips (no '$', bad checksum, another sentence).
GpsReadSkip ==
    /\ ReadLoopOn /\ ~scanStopped
    /\ nLines' = nLines + 1
    /\ UNCHANGED <<gpsScannerSet, gpsLast, gpsPc, gotRMC, gotGGA, scanStopped>>
    /\ UNCHANGED <<supVars, fanVars, drvVars, cellVars, odoVars, saveVars>>

\* Read returns (n.last, nil): the loop ended, or Scan() returned false
\* while the loop was still on and the scanner has stopped. The poller stores
\* the pointer in lastGPS and, for a valid moving fix, calls updateOdometer.
GpsReadReturn ==
    /\ gpsPc = "read"
    /\ gpsPc' = "idle"
    /\ scanStopped' = (scanStopped \/ ReadLoopOn)
    /\ lastGPS' = Ref
    /\ okGPS' = gpsLast
    /\ LET o == IF FeedsOdometer(gpsLast) THEN updateOdometer(Odo, gpsLast.pos)
                ELSE Odo IN
         /\ o.total <= MaxOdo
         /\ odoTotal' = o.total
         /\ odoTrip' = o.trip
         /\ lastGPSPos' = o.pos
         /\ lastGPSValid' = o.valid
    /\ UNCHANGED <<gpsScannerSet, gpsLast, gotRMC, gotGGA, nLines>>
    /\ UNCHANGED <<lastECU, okECU, lastFrame, saveVars, supVars, fanVars, drvVars>>

\* The largest total the whole-Read tick below is followed to: two steps of
\* the longest distance that still counts.
MoveCap == 2 * glitchJump + 10

\* GPS goroutine, one tick on a connected provider, Read taken as a whole: it
\* returns the fix with no error, the poller stores it in the latest-GPS cell
\* and, for a valid moving fix, calls updateOdometer.
GpsTick(fix) ==
    /\ gpsPc = "idle" /\ gpsScannerSet
    /\ gpsLast' = fix
    /\ lastGPS' = Ref
    /\ okGPS' = fix
    /\ LET o == IF FeedsOdometer(fix) THEN updateOdometer(Odo, fix.pos)
                ELSE Odo IN
         /\ o.total <= MoveCap
         /\ odoTotal' = o.total
         /\ odoTrip' = o.trip
         /\ lastGPSPos' = o.pos
         /\ lastGPSValid' = o.valid
    /\ UNCHANGED <<gpsScannerSet, gpsPc, gotRMC, gotGGA, nLines, scanStopped>>
    /\ UNCHANGED <<lastECU, okECU, lastFrame, saveVars, supVars, fanVars, drvVars>>

\* Broadcast loop of pollLoop, one tick: both cells are snapshotted, the speed
\* is fused, the odometer is read and rounded, and the frame is handed to
\* Server.broadcast when at least one snapshot is present.
BroadcastTick ==
    /\ bPc["tick"] = "idle"
    /\ LET ecuSnap == lastECU
           gpsSnap == lastGPS
           speed == calcSpeed(ecuSnap, Deref(gpsSnap))
           odo == [total |-> RoundTenth(odoTotal), trip |-> RoundTenth(odoTrip)]
       IN IF HasSomething(ecuSnap, gpsSnap)
            THEN /\ lastFrame' = [ecu |-> ecuSnap, gps |-> gpsSnap,
                                  gpsSeen |-> Deref(gpsSnap), odo |-> odo,
                                  speed |-> speed]
                 /\ BroadcastBegin("tick")
            ELSE UNCHANGED <<lastFrame, bPc, bTodo, dropped>>
    /\ UNCHANGED <<clients, send, chClosed, wsPc, writerOn, connDropped, sendPanic>>
    /\ UNCHANGED <<lastECU, okECU, lastGPS, okGPS, gpsVars, odoVars, saveVars>>
    /\ FanOthers

(***************************************************************************)
(* ECU driver: Speeduino.Connect, RequestData and the request functions    *)
(* (internal/ecu/speeduino.go), polled by the ECU goroutine of pollLoop.   *)
(* A byte slice is a sequence of numbers 0..255; Go offsets start at 0.    *)
(***************************************************************************)
primaryOCHBlockSize == 130
rCommandType == 48
secondaryADataSize == 75
secondaryNDataSize == 119
secondaryRDataSize == 119

\* SpeeduinoConfig.Protocol after the defaulting of NewSpeeduino.
Protocols == {"auto", "msenvelope", "secondary"}

Err(msg) == [err |-> msg]

\* d[off] and d[lo:hi] of a Go byte slice.
At(d, off) == d[off + 1]
Slice(d, lo, hi) == SubSeq(d, lo + 1, hi)

\* ---- hash/crc32: ChecksumIEEE over a uint32 kept as two 16-bit halves
RECURSIVE Xor(_, _)
Xor(a, b) == IF a = 0 THEN b ELSE IF b = 0 THEN a
             ELSE ((a + b) % 2) + 2 * Xor(a \div 2, b \div 2)

Xor32(c, d) == [hi |-> Xor(c.hi, d.hi), lo |-> Xor(c.lo, d.lo)]
Shr1(c) == [hi |-> c.hi \div 2, lo |-> c.lo \div 2 + 32768 * (c.hi % 2)]

\* The reflected IEEE polynomial 0xEDB88320 and the all-ones word 0xFFFFFFFF.
IEEE == [hi |-> 60856, lo |-> 33568]
AllOnes == [hi |-> 65535, lo |-> 65535]

\* One bit of the shift register.
crcShift(c) == IF c.lo % 2 = 1 THEN Xor32(Shr1(c), IEEE) ELSE Shr1(c)

\* k bits of the shift register.
RECURSIVE crcBits(_, _)
crcBits(c, k) ==
    IF k = 0 THEN c
    ELSE CHOOSE r \in {crcBits(n, k - 1) : n \in {crcShift(c)}} : TRUE

\* The register after the bytes p[lo..hi] (indices from 1) have been fed.
RECURSIVE crcUpdate(_, _, _, _)
crcUpdate(c, p, lo, hi) ==
    IF lo > hi THEN c
    ELSE IF lo = hi THEN crcBits([c EXCEPT !.lo = Xor(@, p[lo])], 8)
    ELSE CHOOSE r \in {crcUpdate(n, p, (lo + hi) \div 2 + 1, hi) :
                         n \in {crcUpdate(c, p, lo, (lo + hi) \div 2)}} : TRUE

ChecksumIEEE(p) == Xor32(crcUpdate(AllOnes, p, 1, Len(p)), AllOnes)

\* encoding/binary, big endian.
PutUint32(v) == <<v.hi \div 256, v.hi % 256, v.lo \div 256, v.lo % 256>>
Uint32(b) == [hi |-> b[1] * 256 + b[2], lo |-> b[3] * 256 + b[4]]
Uint16(b) == b[1] * 256 + b[2]

\* The variant below computes the CRC over the size header and the payload.
wrapMsEnvelopeCrcAll(payload) ==
    LET head == <<((Len(payload) % 65536) \div 256), Len(payload) % 256>>
    IN head \o payload \o PutUint32(ChecksumIEEE(head \o payload))
\* wrapMsEnvelope: <size_hi> <size_lo> <payload...> <crc32, 4 bytes>, the size
\* being uint16(len(payload)).
wrapMsEnvelope(payload) ==
    <<((Len(payload) % 65536) \div 256), Len(payload) % 256>>
        \o payload \o PutUint32(ChecksumIEEE(payload))

\* readExact(buf, timeout) with len(buf) = n, on the bytes rx that reach the
\* port before the deadline: the first n of them, or an error when fewer come.
readExact(rx, n) ==
    IF Len(rx) >= n
      THEN [ok |-> TRUE, buf |-> SubSeq(rx, 1, n), rest |-> SubSeq(rx, n + 1, Len(rx))]
      ELSE [ok |-> FALSE, buf |-> rx, rest |-> << >>]

\* readMsEnvelopeResponse: the payload, or an error.
readMsEnvelopeResponse(rx) ==
    LET sizeHeader == readExact(rx, 2) IN
    IF ~sizeHeader.ok THEN Err("size header")
    ELSE LET respPayloadSize == Uint16(sizeHeader.buf) IN
         IF respPayloadSize = 0 \/ respPayloadSize > 1024
           THEN Err("invalid payload size")
           ELSE LET rest == readExact(sizeHeader.rest, respPayloadSize + 4) IN
                IF ~rest.ok THEN Err("payload+crc")
                ELSE LET payload == Slice(rest.buf, 0, respPayloadSize)
                         respCRC == Uint32(Slice(rest.buf, respPayloadSize,
                                                 respPayloadSize + 4))
                         calcCRC == ChecksumIEEE(payload)
                     IN IF respCRC # calcCRC THEN Err("CRC mismatch")
                        ELSE [payload |-> payload]

\* The closures of parseSecondaryData: a byte, a signed byte and a 16-bit
\* little-endian word at offset off of d, zero when d does not hold them.
\* The variant of u16le below needs only the low byte to be there.
u8(d, off) == IF off < Len(d) THEN At(d, off) ELSE 0
s8(d, off) == IF off < Len(d) THEN (IF At(d, off) >= 128 THEN At(d, off) - 256
                                                         ELSE At(d, off))
              ELSE 0
u16leLowByte(d, off) ==
    IF off + 1 < Len(d) THEN At(d, off) + 256 * At(d, off + 1)
    ELSE IF off < Len(d) THEN At(d, off) ELSE 0
u16le(d, off) ==
    IF off + 1 < Len(d) THEN At(d, off) + 256 * At(d, off + 1) ELSE 0
s16le(d, off) == IF u16le(d, off) >= 32768 THEN u16le(d, off) - 65536
                 ELSE u16le(d, off)

\* b & (1 << k) != 0
BitSet(b, k) == (b \div (2 ^ k)) % 2 = 1

\* parseSecondaryData before computeDerived: every field it assigns. A field
\* the code scales by 0.1 holds tenths here; the fields of the block guarded
\* by n > 75 keep their zero values when the guard fails.
parseSecondaryFields(d) ==
    LET n == Len(d)
        ext == n > 75
        X8(off) == IF ext THEN u8(d, off) ELSE 0
        XS8(off) == IF ext THEN s8(d, off) ELSE 0
        X16(off) == IF ext THEN u16le(d, off) ELSE 0
        XS16(off) == IF ext THEN s16le(d, off) ELSE 0
    IN [ Secl |-> u8(d, 0),
         DFCOOn |-> BitSet(u8(d, 1), 4),
         Running |-> BitSet(u8(d, 2), 0),
         Cranking |-> BitSet(u8(d, 2), 1),
         ASE |-> BitSet(u8(d, 2), 2),
         Warmup |-> BitSet(u8(d, 2), 3),
         Dwell |-> u8(d, 3),
         MAP |-> u16le(d, 4),
         IAT |-> u8(d, 6) - 40,
         Coolant |-> u8(d, 7) - 40,
         BatCorrection |-> u8(d, 8),
         BatteryVoltage |-> u8(d, 9),
         AFR |-> u8(d, 10),
         EGOCorrection |-> u8(d, 11),
         AirCorrection |-> u8(d, 12),
         WarmupEnrich |-> u8(d, 13),
         RPM |-> u16le(d, 14),
         AccelEnrich |-> u8(d, 16),
         GammaEnrich |-> u8(d, 17),
         VECurr |-> u8(d, 18),
         VE1 |-> IF ext THEN u8(d, 113) ELSE u8(d, 18),
         AFRTarget |-> u8(d, 19),
         PulseWidth1 |-> u16le(d, 20),
         Advance |-> s8(d, 23),
         TPS |-> u8(d, 24),
         LoopsPerSecond |-> u16le(d, 25),
         FreeRAM |-> u16le(d, 27),
         BoostTarget |-> u8(d, 29),
         BoostDuty |-> u8(d, 30),
         Sync |-> BitSet(u8(d, 31), 7),
         RPMdot |-> s16le(d, 32),
         FlexPct |-> u8(d, 34),
         FlexFuelCor |-> u8(d, 35),
         FlexIgnCor |-> s8(d, 36),
         IdleLoad |-> u8(d, 37),
         AFR2 |-> u8(d, 39),
         Baro |-> u8(d, 40),
         Errors |-> u8(d, 74),
         PulseWidth2 |-> X16(76),
         PulseWidth3 |-> X16(78),
         PulseWidth4 |-> X16(80),
         FuelLoad |-> XS16(84),
         IgnLoad |-> XS16(86),
         CLIdleTarget |-> X8(91) * 10,
         MAPdot |-> XS8(92),
         VVT1Angle |-> XS8(93),
         VVT1Target |-> X8(94),
         VVT1Duty |-> X8(95),
         BaroCorrection |-> X8(98),
         ASECurr |-> X8(99),
         VSS |-> X16(100),
         Gear |-> X8(102),
         FuelPressure |-> X8(103),
         OilPressure |-> X8(104),
         FanStatus |-> BitSet(X8(106), 3),
         VVT2Angle |-> XS8(107),
         VVT2Target |-> X8(108),
         VVT2Duty |-> X8(109),
         VE2 |-> X8(114),
         Advance1 |-> XS8(115),
         Advance2 |-> XS8(116),
         SDStatus |-> X8(118) ]

\* parsePrimaryData and parseSecondaryData as the poll loop sees them: of the
\* DataFrame it keeps VSS, the field calcSpeed reads.
parsePrimaryData(d) == [vss |-> At(d, 104) + 256 * At(d, 105)]
parseSecondaryData(d) == [vss |-> parseSecondaryFields(d).VSS]

\* ---- replies of the tty to a request
OCHBlock(vss) == [i \in 1..primaryOCHBlockSize |-> IF i = 105 THEN vss ELSE 0]
SecBlock(n, vss) == [i \in 1..n |-> IF i = 101 THEN vss ELSE 0]
Reply(bytes) == [wrOk |-> TRUE, rx |-> bytes]
CorruptLast(bytes) == [bytes EXCEPT ![Len(bytes)] = (@ + 1) % 256]

TtyReplies ==
    { [wrOk |-> FALSE, rx |-> << >>],
      Reply(<< >>),
      Reply(<<110, 50, secondaryNDataSize>> \o SecBlock(secondaryNDataSize, 55)),
      Reply(<<110, 50, secondaryNDataSize>> \o SecBlock(secondaryNDataSize, 0)),
      Reply(<<110, 50, secondaryNDataSize>> \o SecBlock(10, 0)),
      Reply(<<110, 50, 0>>),
      Reply(<<110, 49, secondaryNDataSize>> \o SecBlock(secondaryNDataSize, 55)),
      Reply(<<65>> \o SecBlock(secondaryADataSize, 0)),
      Reply(<<66>> \o SecBlock(secondaryADataSize, 0)),
      Reply(wrapMsEnvelope(OCHBlock(55))),
      Reply(wrapMsEnvelope(<<9>> \o OCHBlock(90))),
      Reply(wrapMsEnvelope(SecBlock(70, 0) \o OCHBlock(7))),
      Reply(CorruptLast(wrapMsEnvelope(OCHBlock(55)))),
      Reply(wrapMsEnvelope(<<1, 2, 3>>)),
      Reply(wrapMsEnvelope(SecBlock(895, 0) \o OCHBlock(55))),
      Reply(<<0, 0>>),
      Reply(<<5, 0>>) }

\* readMsEnvelopeResponse on the replies above, evaluated once; on any other
\* bytes envelopeResponse is readMsEnvelopeResponse itself.
Decoded == {<<io.rx, readMsEnvelopeResponse(io.rx)>> : io \in TtyReplies}
envelopeResponse(rx) ==
    IF \E p \in Decoded : p[1] = rx
      THEN (CHOOSE p \in Decoded : p[1] = rx)[2]
      ELSE readMsEnvelopeResponse(rx)

\* What the tty does during one request: whether port.Write succeeds and the
\* bytes that arrive afterwards (io = [wrOk, rx]).
\* The variant below accepts any length byte, zero included.
requestSecondaryNAnyLength(io) ==
    IF port = "nil" THEN Err("not connected")
    ELSE IF ~io.wrOk THEN Err("write failed")
    ELSE LET header == readExact(io.rx, 3) IN
         IF ~header.ok THEN Err("n-cmd header")
         ELSE IF header.buf[1] # 110 THEN Err("n-cmd unexpected echo")
         ELSE IF header.buf[2] # 50 THEN Err("n-cmd unexpected type")
         ELSE LET data == readExact(header.rest, header.buf[3]) IN
              IF ~data.ok THEN Err("n-cmd data")
              ELSE parseSecondaryData(data.buf)
requestSecondaryN(io) ==
    IF port = "nil" THEN Err("not connected")
    ELSE IF ~io.wrOk THEN Err("write failed")
    ELSE LET header == readExact(io.rx, 3) IN
         IF ~header.ok THEN Err("n-cmd header")
         ELSE IF header.buf[1] # 110 THEN Err("n-cmd unexpected echo")
         ELSE IF header.buf[2] # 50 THEN Err("n-cmd unexpected type")
         ELSE LET dataLen == header.buf[3] IN
              IF dataLen = 0 \/ dataLen > 256 THEN Err("n-cmd invalid length")
              ELSE LET data == readExact(header.rest, dataLen) IN
                   IF ~data.ok THEN Err("n-cmd data")
                   ELSE parseSecondaryData(data.buf)

requestSecondaryA(io) ==
    IF ~io.wrOk THEN Err("write failed")
    ELSE LET resp == readExact(io.rx, 1 + secondaryADataSize) IN
         IF ~resp.ok THEN Err("A-cmd")
         ELSE IF resp.buf[1] # 65 THEN Err("A-cmd unexpected echo")
         ELSE parseSecondaryData(Tail(resp.buf))

requestSecondary(io) ==
    IF ~io.wrOk THEN Err("write failed")
    ELSE LET respLen == 2 + secondaryRDataSize
             resp == readExact(io.rx, respLen) IN
         IF ~resp.ok THEN Err("incomplete response")
         ELSE IF resp.buf[1] # 114 THEN Err("unexpected echo")
         ELSE IF resp.buf[2] # rCommandType THEN Err("unexpected r-type")
         ELSE parseSecondaryData(Slice(resp.buf, 2, respLen))

\* requestPrimary, after the envelope was read: the OCH block out of a payload.
\* The variant below always takes the leading bytes.
primaryDataHead(payload) ==
    IF Len(payload) >= primaryOCHBlockSize
      THEN parsePrimaryData(Slice(payload, 0, primaryOCHBlockSize))
      ELSE Err("unexpected payload size")
primaryData(payload) ==
    LET n == Len(payload) IN
    IF n = primaryOCHBlockSize THEN parsePrimaryData(payload)
    ELSE IF n = primaryOCHBlockSize + 1 THEN parsePrimaryData(Tail(payload))
    ELSE IF n > primaryOCHBlockSize
           THEN parsePrimaryData(Slice(payload, n - primaryOCHBlockSize, n))
    ELSE Err("unexpected payload size")

requestPrimary(io) ==
    IF ~io.wrOk THEN Err("write failed")
    ELSE CHOOSE r \in {IF IsErr(res) THEN res ELSE primaryData(res.payload) :
                         res \in {envelopeResponse(io.rx)}} : TRUE

\* RequestData: what the call returns. No branch of it, and none of the
\* request functions, assigns s.connected, s.port or s.proto.
RequestData(io) ==
    IF ~connected \/ port = "nil" THEN Err("not connected")
    ELSE CASE proto = "protoSecondaryN" -> requestSecondaryN(io)
           [] proto = "protoSecondaryA" -> requestSecondaryA(io)
           [] proto = "protoSecondaryR" -> requestSecondary(io)
           [] proto = "protoPrimary" -> requestPrimary(io)
           [] OTHER -> Err("unknown protocol mode")

\* NewSpeeduino: no port, proto at its zero value, not connected.
InitDrv(p) ==
    /\ port = "nil"
    /\ connected = FALSE
    /\ proto = "protoSecondaryN"
    /\ protocol = p
    /\ drvRet = Nil
    /\ connRet = Nil
    /\ txLog = << >>
    /\ lastIn = Nil

\* ---- handshake probes of Connect; io = [wrOk, rx] as for a request, and a
\* ---- probe is TRUE when the function returns nil
\* The first k bytes that a read loop with a buffer of k bytes collects.
Take(rx, k) == SubSeq(rx, 1, IF Len(rx) < k THEN Len(rx) ELSE k)

\* s.canID: main.go builds the driver without CanID
canID == 0

buildMsEnvelope(offset, length) ==
    wrapMsEnvelope(<<114, canID, rCommandType, offset % 256, offset \div 256,
                     length % 256, length \div 256>>)
buildMsEnvelopeCmd(cmd) == wrapMsEnvelope(<<cmd>>)

\* tryMsEnvelopeQ: the reply must begin with an envelope of 1..127 payload
\* bytes whose CRC matches; anything else (plain ASCII included) is an error.
tryMsEnvelopeQ(io) ==
    /\ io.wrOk
    /\ LET resp == Take(io.rx, 256 + 128) IN
         /\ Len(resp) >= 2
         /\ LET respPayloadSize == Uint16(Slice(resp, 0, 2)) IN
              /\ respPayloadSize > 0 /\ respPayloadSize < 128
              /\ Len(resp) >= 2 + respPayloadSize + 4
              /\ Uint32(Slice(resp, 2 + respPayloadSize, 2 + respPayloadSize + 4))
                   = ChecksumIEEE(Slice(resp, 2, 2 + respPayloadSize))

tryPrimaryHandshake(io) ==
    io.wrOk /\ ~IsErr(readMsEnvelopeResponse(io.rx))

\* trySecondaryHandshakeN: `for i := 0; i+2 < len(resp); i++` looks for 6E 32
\* with a length byte after it. The variant below accepts the two bytes alone.
trySecondaryHandshakeNTwoBytes(io) ==
    /\ io.wrOk
    /\ LET resp == Take(io.rx, 3 + secondaryNDataSize) IN
         \E i \in 0..(Len(resp) - 2) : At(resp, i) = 110 /\ At(resp, i + 1) = 50
trySecondaryHandshakeN(io) ==
    /\ io.wrOk
    /\ LET resp == Take(io.rx, 3 + secondaryNDataSize) IN
         \E i \in 0..(Len(resp) - 3) : At(resp, i) = 110 /\ At(resp, i + 1) = 50

\* trySecondaryHandshakeA: any 0x41 among the up to 256 bytes collected.
trySecondaryHandshakeA(io) ==
    /\ io.wrOk
    /\ LET resp == Take(io.rx, 256) IN \E j \in 0..(Len(resp) - 1) : At(resp, j) = 65

\* flushECUCommandBuffer writes make([]byte, 20); probeVersion writes 'Q' and
\* then 'S' and only logs the answers.
flushECUCommandBuffer == [i \in 1..20 |-> 0]
probeVersion == << <<81>>, <<83>> >>

\* The failure path of Connect: s.port.Close(); s.port = nil. The variant
\* below keeps the port.
LeakedPort(p) == p
ClosedPort(p) == "nil"

\* Connect: the phases the configured protocol enables. The variant of
\* tryMsEnvelope below probes the framed protocol whatever is configured.
tryMsEnvelopeAlways(p) == TRUE
tryMsEnvelope(p) == p \in {"auto", "msenvelope"}
trySecondaryAlways(p) == TRUE
trySecondary(p) == p \in {"auto", "secondary"}

\* One call of Speeduino.Connect, whatever the state of the driver. tty is
\* what the tty lets happen: serial.Open and SetReadTimeout succeed (opened),
\* and the write outcome and reply for each handshake probe (q:
\* tryMsEnvelopeQ, r: tryPrimaryHandshake, n: trySecondaryHandshakeN, a:
\* trySecondaryHandshakeA). A probe is made only when the ones before it failed.
SpeeduinoConnect(tty) ==
    /\ LET okQ == tryMsEnvelope(protocol) /\ tryMsEnvelopeQ(tty.q)
           okR == tryMsEnvelope(protocol) /\ ~okQ /\ tryPrimaryHandshake(tty.r)
           plain == trySecondary(protocol) /\ ~okQ /\ ~okR
           okN == plain /\ trySecondaryHandshakeN(tty.n)
           okA == plain /\ ~okN /\ trySecondaryHandshakeA(tty.a)
           phase1 == IF ~tryMsEnvelope(protocol) THEN << >>
                     ELSE IF okQ THEN <<buildMsEnvelopeCmd(81)>>
                     ELSE <<buildMsEnvelopeCmd(81), buildMsEnvelope(0, 4)>>
           phase2 == IF ~plain THEN << >>
                     ELSE <<flushECUCommandBuffer>> \o probeVersion
                            \o <<flushECUCommandBuffer, <<110>> >>
                            \o (IF okN THEN << >>
                                ELSE <<flushECUCommandBuffer, <<65>> >>)
       IN IF ~tty.opened
            THEN /\ connRet' = Err("failed to open")
                 /\ txLog' = << >>
                 /\ UNCHANGED <<port, connected, proto>>
            ELSE /\ txLog' = phase1 \o phase2
                 /\ IF okQ \/ okR
                      THEN /\ port' = "open" /\ proto' = "protoPrimary"
                           /\ connected' = TRUE /\ connRet' = [ok |-> TRUE]
                    ELSE IF okN
                      THEN /\ port' = "open" /\ proto' = "protoSecondaryN"
                           /\ connected' = TRUE /\ connRet' = [ok |-> TRUE]
                    ELSE IF okA
                      THEN /\ port' = "open" /\ proto' = "protoSecondaryA"
                           /\ connected' = TRUE /\ connRet' = [ok |-> TRUE]
                    ELSE /\ port' = ClosedPort("open")
                         /\ connRet' = Err("no valid protocol detected")
                         /\ UNCHANGED <<connected, proto>>
    /\ lastIn' = tty
    /\ UNCHANGED <<protocol, drvRet>>
    /\ UNCHANGED <<supVars, fanVars, pollVars>>

\* Connect as the program calls it: by connectWithRetry, until it first
\* succeeds.
Connect(tty) ==
    /\ ~connected
    /\ SpeeduinoConnect(tty)

\* The bytes the request function of the current mode hands to port.Write.
requestWrite ==
    CASE proto = "protoSecondaryN" -> <<110>>
      [] proto = "protoSecondaryA" -> <<65>>
      [] proto = "protoSecondaryR" ->
           <<114, canID, rCommandType, 0, 0, secondaryRDataSize % 256,
             secondaryRDataSize \div 256>>
      [] proto = "protoPrimary" -> buildMsEnvelope(0, primaryOCHBlockSize)

\* The poll tick of a poller that gives the driver up after a failure on the
\* wire: the driver is left disconnected.
EcuPollGivesUp(io) ==
    /\ LET r == RequestData(io) IN
         /\ drvRet' = r
         /\ lastECU' = StoreECU(lastECU, r)
         /\ okECU' = IF IsErr(r) THEN okECU ELSE r
         /\ connected' = IF IsErr(r) THEN FALSE ELSE connected
    /\ txLog' = IF ~connected \/ port = "nil" THEN << >> ELSE <<requestWrite>>
    /\ lastIn' = io
    /\ UNCHANGED <<port, proto, protocol, connRet>>
    /\ UNCHANGED <<lastGPS, okGPS, lastFrame, gpsVars, odoVars, saveVars>>
    /\ UNCHANGED <<supVars, fanVars>>

\* ECU goroutine of pollLoop, one tick, with the driver behind it: the result
\* of RequestData is stored in lastECU unless it is an error.
EcuPoll(io) ==
    /\ LET r == RequestData(io) IN
         /\ drvRet' = r
         /\ lastECU' = StoreECU(lastECU, r)
         /\ okECU' = IF IsErr(r) THEN okECU ELSE r
    /\ txLog' = IF ~connected \/ port = "nil" THEN << >> ELSE <<requestWrite>>
    /\ lastIn' = io
    /\ UNCHANGED <<port, connected, proto, protocol, connRet>>
    /\ UNCHANGED <<lastGPS, okGPS, lastFrame, gpsVars, odoVars, saveVars>>
    /\ UNCHANGED <<supVars, fanVars>>

\* The same call with the block guarded by n > 75 never run: only the
\* first 75 bytes are decoded.
ParseSecondaryFirst75(d) ==
    /\ drvRet' = parseSecondaryFields(Take(d, 75))
    /\ lastIn' = [payload |-> d]
    /\ UNCHANGED <<port, connected, proto, protocol, connRet, txLog>>
    /\ UNCHANGED <<supVars, fanVars, pollVars>>

\* A call of parseSecondaryData on a payload d, as the request functions of
\* plain mode make it after the header was checked: the returned DataFrame.
ParseSecondary(d) ==
    /\ drvRet' = parseSecondaryFields(d)
    /\ lastIn' = [payload |-> d]
    /\ UNCHANGED <<port, connected, proto, protocol, connRet, txLog>>
    /\ UNCHANGED <<supVars, fanVars, pollVars>>

\* The envelope codec over a transport that hands the written bytes back:
\* wrapMsEnvelope on the payload lastIn.payload, the frame written to the
\* port, and readMsEnvelopeResponse on the same bytes.
EnvelopeLoopback ==
    /\ lastIn # Nil /\ "wrap" \in DOMAIN lastIn
    /\ LET frame == CHOOSE f \in {wrapMsEnvelope(lastIn.wrap)} : TRUE IN
         /\ txLog' = <<frame>>
         /\ drvRet' = readMsEnvelopeResponse(frame)
    /\ UNCHANGED <<port, connected, proto, protocol, connRet, lastIn>>
    /\ UNCHANGED <<supVars, fanVars, pollVars>>

\* Connect while its handshake runs: serial.Open and SetReadTimeout have
\* succeeded and s.port was stored under s.mu; the lock was released and the
\* call has not returned yet.
Running == [running |-> TRUE]
Panicked == Err("nil pointer dereference")

\* Connect up to the release of s.mu: the opened port is stored.
ConnectOpen ==
    /\ ~connected /\ connRet \notin {Running, Panicked}
    /\ port' = "open"
    /\ connRet' = Running
    /\ UNCHANGED <<connected, proto, protocol, drvRet, txLog, lastIn>>
    /\ UNCHANGED <<supVars, fanVars, pollVars>>

\* Connect from there to its return: the probes, made without the lock, and
\* the assignment of s.proto and s.connected or the close of the port.
ConnectFinish(tty) ==
    /\ connRet = Running /\ port = "open" /\ tty.opened
    /\ Connect(tty)

\* The same on a port that Close has cleared meanwhile: the first use of
\* s.port dereferences nil and the process dies.
ConnectOnNilPort ==
    /\ connRet = Running /\ port = "nil"
    /\ connRet' = Panicked
    /\ UNCHANGED <<port, connected, proto, protocol, drvRet, txLog, lastIn>>
    /\ UNCHANGED <<supVars, fanVars, pollVars>>

\* Close, all of it under s.mu.
Close ==
    /\ connRet # Panicked
    /\ connected' = FALSE
    /\ port' = "nil"
    /\ UNCHANGED <<proto, protocol, drvRet, connRet, txLog, lastIn>>
    /\ UNCHANGED <<supVars, fanVars, pollVars>>

\* One tick of the ECU poller in a process that is still alive.
PollWhileAlive(io) ==
    /\ connRet # Panicked
    /\ EcuPoll(io)

Init == InitSup /\ InitFan /\ InitOdo /\ InitPoll /\ InitDrv("auto")


(***************************************************************************)
(* Specifications                                                          *)
(***************************************************************************)
\* Fan-out: subscribers come and go while the broadcast tick and handleConfig
\* publish. The ECU delivers one kind of frame; the GPS stays silent. A reader
\* goroutine calls clientsMu.Lock() at a moment the lock is free (ReaderRemove);
\* the call that has to wait is part of NextDrop below.
NextFan ==
    \/ \E c \in Clients : HandleWSRegister(c)
    \/ \E c \in Clients : HandleWSSendConfig(c)
    \/ \E c \in Clients : WriterDeliver(c)
    \/ \E c \in Clients : WriterFail(c)
    \/ \E c \in Clients : WriterDone(c)
    \/ \E c \in Clients : PeerDrop(c)
    \/ \E c \in Clients : ReaderRemove(c)
    \/ \E c \in Clients : ReaderClose(c)
    \/ HandleConfigPost
    \/ BroadcastTick
    \/ \E b \in Broadcasters, c \in Clients : BroadcastSend(b, c)
    \/ \E b \in Broadcasters : BroadcastEnd(b)
    \/ EcuTick([vss |-> 0])

SpecFan == Init /\ [][NextFan]_vars

\* Polling: both pollers and the broadcast tick, no subscriber. Every fix is
\* at the same place, so the odometer is only seeded.
RmcPoll == {[valid |-> v, pos |-> 0, speed |-> s] : v \in BOOLEAN, s \in {1, 42}}

NextPoll ==
    \/ \E r \in EcuFrames \cup {EcuErr} : EcuTick(r)
    \/ GpsConnect
    \/ GpsTickNotConnected
    \/ GpsReadBegin
    \/ \E r \in RmcPoll : GpsReadRMC(r)
    \/ GpsReadGGA(7)
    \/ GpsReadSkip
    \/ GpsReadReturn
    \/ BroadcastTick

SpecPoll == Init /\ [][NextPoll]_vars

\* Odometer: the GPS poller feeds fixes at several places of the meridian
\* while the trip is reset and handleResetTrip saves the odometer (the
\* persistence ticker and the shutdown are in SpecRun).
Positions == {0, 3, 600}
RmcOdo == {[valid |-> v, pos |-> p, speed |-> s] :
              v \in BOOLEAN, p \in Positions, s \in {1, 30}}

NextOdo ==
    \/ GpsConnect
    \/ GpsTickNotConnected
    \/ GpsReadBegin
    \/ \E r \in RmcOdo : GpsReadRMC(r)
    \/ GpsReadSkip
    \/ GpsReadReturn
    \/ HandleResetTrip
    \/ SaveSnapshot("reset")
    \/ \E ok \in BOOLEAN : SaveOpen("reset", ok)
    \/ SaveWrite("reset")

SpecOdo == Init /\ [][NextOdo]_vars

\* Driver: Connect under every configured protocol, then polls against a tty
\* that answers well or badly in each of the wire formats.
InitDrvAny ==
    InitSup /\ InitFan /\ InitOdo /\ InitPoll /\ \E p \in Protocols : InitDrv(p)

\* What the tty does during one Connect: a probe whose write fails gets no
\* reply.
NoReply == [wrOk |-> TRUE, rx |-> << >>]
WriteFails == [wrOk |-> FALSE, rx |-> << >>]
Tty(o, q, r, n, a) == [opened |-> o, q |-> q, r |-> r, n |-> n, a |-> a]
GoodN == Reply(<<110, 50, secondaryNDataSize>> \o SecBlock(secondaryNDataSize, 0))
GoodA == Reply(<<65>> \o SecBlock(secondaryADataSize, 0))
VersionText == <<115, 112, 101, 101, 100, 117, 105, 110, 111>>
ConnectTtys ==
    { Tty(FALSE, NoReply, NoReply, NoReply, NoReply),
      Tty(TRUE, Reply(wrapMsEnvelope(VersionText)), NoReply, NoReply, NoReply),
      Tty(TRUE, NoReply, Reply(wrapMsEnvelope(<<0, 1, 2, 3>>)), NoReply, NoReply),
      Tty(TRUE, Reply(VersionText), NoReply, GoodN, NoReply),
      Tty(TRUE, WriteFails, WriteFails, Reply(<<7, 110, 50, 3>>), GoodA),
      Tty(TRUE, NoReply, NoReply, Reply(<<110, 50>>), GoodA),
      Tty(TRUE, NoReply, NoReply, Reply(<<110, 49, 66>>), GoodA),
      Tty(TRUE, NoReply, NoReply, NoReply, Reply(<<7, 65>>)),
      Tty(TRUE, NoReply, NoReply, NoReply, NoReply),
      Tty(TRUE, NoReply, NoReply, WriteFails, WriteFails),
      Tty(TRUE, NoReply, NoReply, Reply(<<110, 50>>), Reply(<<66, 66>>)),
      Tty(TRUE, NoReply, NoReply, WriteFails, GoodA) }

NextDrv ==
    \/ \E tty \in ConnectTtys : Connect(tty)
    \/ \E io \in TtyReplies : EcuPoll(io)

SpecDrv == InitDrvAny /\ [][NextDrv]_vars

\* The operations of the Provider interface on one Speeduino, as tasks holding
\* it may call them: Connect in its two parts, RequestData and Close. A step
\* is what runs between one acquisition of s.mu and the next.
OpsReplies ==
    { Reply(<< >>),
      Reply(<<110, 50, secondaryNDataSize>> \o SecBlock(secondaryNDataSize, 55)),
      Reply(<<65>> \o SecBlock(secondaryADataSize, 0)),
      Reply(wrapMsEnvelope(OCHBlock(55))) }

NextOps ==
    \/ ConnectOpen
    \/ \E tty \in ConnectTtys : ConnectFinish(tty)
    \/ ConnectOnNilPort
    \/ Close
    \/ \E io \in OpsReplies : PollWhileAlive(io)

SpecOps == InitDrvAny /\ [][NextOps]_vars

\* The driver under any sequence of calls of Connect, RequestData and Close,
\* one at a time.
NextCalls ==
    \/ \E tty \in ConnectTtys : SpeeduinoConnect(tty)
    \/ \E io \in OpsReplies : EcuPoll(io)
    \/ Close

SpecCalls == InitDrvAny /\ [][NextCalls]_vars

\* Stale ECU data: the driver connects, its polls succeed or fail on the
\* wire and the broadcast tick publishes; no GPS is attached.
NextStale ==
    \/ \E tty \in ConnectTtys : Connect(tty)
    \/ \E io \in TtyReplies : EcuPoll(io)
    \/ BroadcastTick

SpecStale == Init /\ [][NextStale]_vars

\* Odometer distances: fixes on both sides of the two thresholds of
\* updateOdometer (1, 2 and 3 m; 499 to 503 m), valid and moving, and one
\* that stands still.
MovePoints == {0, 1, 2, 3, 502, 503}
MoveFixes ==
    {[valid |-> TRUE, pos |-> p, speed |-> 30, sats |-> 0] : p \in MovePoints}
        \cup {[valid |-> TRUE, pos |-> 3, speed |-> 1, sats |-> 0]}

NextMove ==
    \/ GpsConnect
    \/ \E fix \in MoveFixes : GpsTick(fix)

SpecMove == Init /\ [][NextMove]_vars

\* Shutdown: the GPS poller moves the odometer, the trip is reset and the
\* ticker saves while the context is cancelled and Run returns. Every open of
\* the odometer file succeeds.
RmcRun == {[valid |-> TRUE, pos |-> p, speed |-> 30] : p \in {0, 3}}

NextRun ==
    \/ GpsConnect
    \/ GpsReadBegin
    \/ \E r \in RmcRun : GpsReadRMC(r)
    \/ GpsReadReturn
    \/ HandleResetTrip
    \/ \E p \in Savers : SaveSnapshot(p)
    \/ \E p \in Savers : SaveSnapshotOnDone(p)
    \/ \E p \in Savers : SaveOpen(p, TRUE)
    \/ \E p \in Savers : SaveWrite(p)
    \/ Cancel
    \/ RunShutdown
    \/ RunListenFail

SpecRun == Init /\ [][NextRun]_vars

\* Startup: server.New finds the odometer file absent, empty, or holding up
\* to MaxFileLines lines, each the text of a number or not.
LineTexts == {FormatKm(3), <<"7">>, <<"x">>, <<"1", ".", "x">>}
OdoFiles ==
    {Absent} \cup
    {[exists |-> TRUE, lines |-> l] :
        l \in UNION {[1..n -> LineTexts] : n \in 0..MaxFileLines}}

InitLoad ==
    /\ InitSup /\ InitFan /\ InitPoll /\ InitDrv("auto")
    /\ odoTotal = 0
    /\ odoTrip = 0
    /\ lastGPSPos = 0
    /\ lastGPSValid = FALSE
    /\ odoFile \in OdoFiles
    /\ svPc = [p \in Savers |-> "idle"]
    /\ svSnap = [p \in Savers |-> Nil]
    /\ svFinal = [p \in Savers |-> FALSE]
    /\ flushed = Nil
    /\ written = Nil
    /\ runPc = "new"

NextLoad == ServerNew

SpecLoad == InitLoad /\ [][NextLoad]_vars

\* Exit: the driver connects while the context is cancelled, Run's goroutines
\* make their last saves and Run returns.
NextExit ==
    \/ \E tty \in ConnectTtys : Connect(tty)
    \/ Cancel
    \/ \E p \in Savers : SaveSnapshotOnDone(p)
    \/ \E p \in Savers : SaveOpen(p, TRUE)
    \/ \E p \in Savers : SaveWrite(p)
    \/ RunShutdown

SpecExit == Init /\ [][NextExit]_vars

\* Parser: parseSecondaryData on payloads of every length a plain-mode length
\* byte or the legacy size allows, with no byte zero and with the sign bit of
\* every byte clear or set, and payloads whose bytes count up from 1, so that
\* two offsets hold different values.
CountingLens == {19, 75, 76, 114, 122}
PlainPayloads == {[i \in 1..n |-> v] : n \in 0..255, v \in {1, 255}}
                 \cup {[i \in 1..n |-> i] : n \in CountingLens}
NextParse == \E d \in PlainPayloads : ParseSecondary(d)
SpecParse == Init /\ [][NextParse]_vars

\* Envelope codec: the payloads handed to wrapMsEnvelope are short ones of
\* every length 0..60 with all bits clear or set, the text "123456789", an
\* OCH block and a payload of 1024 bytes.
EnvelopePayloads ==
    {[i \in 1..n |-> v] : n \in 0..60, v \in {0, 255}}
        \cup { <<49, 50, 51, 52, 53, 54, 55, 56, 57>>, OCHBlock(55),
               [i \in 1..1024 |-> (7 * i) % 256] }
InitLoop ==
    /\ InitSup /\ InitFan /\ InitOdo /\ InitPoll
    /\ port = "nil" /\ connected = FALSE /\ proto = "protoSecondaryN"
    /\ protocol = "auto" /\ drvRet = Nil /\ connRet = Nil /\ txLog = << >>
    /\ lastIn \in {[wrap |-> p] : p \in EnvelopePayloads}
NextLoop == EnvelopeLoopback
SpecLoop == InitLoop /\ [][NextLoop]_vars

\* Fan-out with its scheduling, for the broadcasts of handleConfig: the reader
\* goroutine of a subscriber may find clientsMu read-locked and wait. A
\* broadcast that holds the read lock keeps running until it has unlocked
\* (its sends never wait), and a reader goroutine whose ReadMessage failed
\* keeps running: it calls Lock, and has the lock once it is free.
NextDrop ==
    \/ \E c \in Clients : HandleWSRegister(c)
    \/ \E c \in Clients : HandleWSSendConfig(c)
    \/ \E c \in Clients : WriterDeliver(c)
    \/ \E c \in Clients : WriterFail(c)
    \/ \E c \in Clients : WriterDone(c)
    \/ \E c \in Clients : PeerDrop(c)
    \/ \E c \in Clients : ReaderFail(c)
    \/ \E c \in Clients : ReaderRemove(c)
    \/ \E c \in Clients : ReaderClose(c)
    \/ HandleConfigPost
    \/ \E c \in Clients : BroadcastSend("post", c)
    \/ BroadcastEnd("post")

FanFairness ==
    /\ WF_vars((\E c \in Clients : BroadcastSend("post", c)) \/ BroadcastEnd("post"))
    /\ \A c \in Clients : WF_vars(ReaderFail(c) \/ ReaderRemove(c))

SpecDrop == Init /\ [][NextDrop]_vars /\ FanFairness

\* GPS-only operation: the ECU never connects (Connect cannot open the tty or
\* finds no protocol, and every RequestData returns an error) while the GPS
\* poller reads fixes at two positions and the broadcast tick publishes. The
\* GPS goroutine and the broadcast loop of pollLoop keep being scheduled.
DeadTtys == { Tty(FALSE, NoReply, NoReply, NoReply, NoReply),
              Tty(TRUE, NoReply, NoReply, NoReply, NoReply) }
RmcGpsOnly == {[valid |-> v, pos |-> p, speed |-> 30] : v \in BOOLEAN, p \in {0, 3}}

NextGpsOnly ==
    \/ \E tty \in DeadTtys : Connect(tty)
    \/ EcuPoll(NoReply)
    \/ GpsConnect
    \/ GpsReadBegin
    \/ \E r \in RmcGpsOnly : GpsReadRMC(r)
    \/ GpsReadReturn
    \/ BroadcastTick

GpsOnlyFairness ==
    /\ WF_vars(GpsReadBegin)
    /\ WF_vars(GpsReadReturn)
    /\ WF_vars(BroadcastTick)

SpecGpsOnly == Init /\ [][NextGpsOnly]_vars /\ GpsOnlyFairness

SpecSup == Init /\ [][NextSup]_vars

\* The goroutine of each supervisor keeps being scheduled and every Connect
\* call returns; nothing is assumed about timers firing.
SupFairness ==
    \A d \in Devices :
        /\ WF_vars(SupTop(d))
        /\ WF_vars(SupConnectFail(d) \/ SupConnectOk(d))
        /\ WF_vars(SupWaitCancelled(d))

SpecSupFair == Init /\ [][NextSup]_vars /\ SupFairness

(***************************************************************************)
(* Claims                                                                  *)
(***************************************************************************)
RECURSIVE Pow2(_)
Pow2(n) == IF n = 0 THEN 1 ELSE 2 * Pow2(n - 1)

Min(a, b) == IF a < b THEN a ELSE b

\* C1: a broadcast never waits for a subscriber: while it iterates, its next
\* send can always be taken; a send to a full queue leaves that queue as it is,
\* a send to a queue with room appends the frame, and no other queue changes.
C1_NonBlockingFanout ==
    /\ [](\A b \in Broadcasters :
            (bPc[b] = "send" /\ bTodo[b] # {}) =>
                \A c \in bTodo[b] : ENABLED BroadcastSend(b, c))
    /\ [][\A b \in Broadcasters : \A c \in bTodo[b] :
            (bPc[b] = "send" /\ bTodo'[b] = bTodo[b] \ {c}) =>
                /\ Len(send[c]) = SendCap => send'[c] = send[c]
                /\ Len(send[c]) < SendCap => send'[c] = Append(send[c], KindOf(b))
                /\ \A d \in Clients \ {c} : send'[d] = send[d]
                /\ bPc'[b] = "send"]_vars

\* C1 witness: one broadcast has visited every subscriber, dropped its frame
\* for a subscriber with a full queue and enqueued it for another one.
C1_Witness ==
    \E b \in Broadcasters : \E c, d \in clients :
        /\ bPc[b] = "send" /\ bTodo[b] = {}
        /\ c \in dropped[b] /\ Len(send[c]) = SendCap
        /\ d \notin dropped[b] /\ send[d] # << >>
        /\ send[d][Len(send[d])] = KindOf(b)

\* C3: until handleWS has enqueued the initial configuration frame of a
\* subscriber, nothing else has been enqueued for that subscriber.
C3_ConfigFirst ==
    \A c \in Clients :
        wsPc[c] = "reg" => \A i \in 1..Len(send[c]) : send[c][i] # "data"

\* C2: every frame a broadcast tick has published carries an ECU snapshot or
\* a GPS snapshot.
C2_FrameHasSource ==
    lastFrame # Nil => (lastFrame.ecu # Nil \/ lastFrame.gps # Nil)

\* C2 witness: a frame was published with the GPS snapshot alone.
C2_Witness ==
    lastFrame # Nil /\ lastFrame.ecu = Nil /\ lastFrame.gps = Ref

\* C4: no step lowers total_km, and a step that lowers trip_km is the reset of
\* handleResetTrip and leaves it at 0.
C4_OdoMonotonic ==
    [][/\ odoTotal' >= odoTotal
       /\ odoTrip' < odoTrip =>
              /\ odoTrip' = 0
              /\ svPc["reset"] = "idle" /\ svPc'["reset"] = "snap"]_vars

\* C4 witness: the trip was reset after 3 m had been accumulated and both
\* counters then grew by another 3 m.
C4_Witness ==
    odoTotal = 6 /\ odoTrip = 3

\* C5: when Read returns a fix that is not valid or not faster than 1 km/h,
\* the poller stores it in the latest-GPS cell and the odometer (total, trip,
\* last position, last-valid flag) stays as it was.
C5_OnlyMovingValidFixes ==
    [][(gpsPc = "read" /\ gpsPc' = "idle"
            /\ (~gpsLast.valid \/ gpsLast.speed <= 1)) =>
         /\ odoTotal' = odoTotal /\ odoTrip' = odoTrip
         /\ lastGPSPos' = lastGPSPos /\ lastGPSValid' = lastGPSValid
         /\ lastGPS' = Ref /\ Deref(lastGPS') = gpsLast]_vars

\* C5 witness: a fix that lost validity after moving to 3 m at 30 km/h was
\* returned and stored, and the odometer is still unseeded.
C5_Witness ==
    /\ gpsPc = "idle" /\ lastGPS = Ref /\ okGPS # Nil
    /\ ~okGPS.valid /\ okGPS.pos = 3 /\ okGPS.speed = 30
    /\ ~lastGPSValid /\ lastGPSPos = 0

\* The fused speed as section 4.6 of the specification words it.
FusedSpeed(e, g) ==
    IF e # Nil /\ e.vss > 0 THEN [value |-> e.vss, source |-> "vss"]
    ELSE IF g # Nil /\ g.valid THEN [value |-> g.speed, source |-> "gps"]
    ELSE [value |-> 0, source |-> "none"]

\* C6: the speed of every published frame is the fused speed of the two
\* snapshots the tick took, and calcSpeed agrees with the fused speed on the
\* current cells too (either of which may be absent).
C6_FusedSpeed ==
    /\ lastFrame # Nil =>
          lastFrame.speed = FusedSpeed(lastFrame.ecu, lastFrame.gpsSeen)
    /\ calcSpeed(lastECU, Deref(lastGPS)) = FusedSpeed(lastECU, Deref(lastGPS))

\* C6 witness: with an ECU frame whose vss is 0 and a valid GPS fix the frame
\* carries the GPS speed.
C6_Witness ==
    /\ lastFrame # Nil /\ lastFrame.ecu # Nil /\ lastFrame.gps # Nil
    /\ lastFrame.ecu.vss = 0 /\ lastFrame.gpsSeen.valid
    /\ lastFrame.speed = [value |-> 42, source |-> "gps"]

\* The failures of a poll that come from the wire: a write error, a timeout
\* or incomplete read, a header mismatch, a length out of range, a CRC
\* mismatch.
WireFailure(r) == IsErr(r) /\ r.err # "not connected"

\* C7: whenever a poll fails on the wire, in any protocol mode, the error is
\* returned to the caller and the driver is disconnected (connected = false)
\* when the call returns.
C7_FailedPollDisconnects ==
    [][\A io \in TtyReplies :
          (EcuPoll(io) /\ WireFailure(RequestData(io))) =>
              (WireFailure(drvRet') /\ ~connected')]_vars

\* C8: each latest cell is none until the first successful poll of its device
\* and then shows the result of the most recent successful poll.
C8_CellIsLatestOk ==
    /\ lastECU = okECU
    /\ okGPS = Nil => lastGPS = Nil
    /\ okGPS # Nil => (lastGPS # Nil /\ Deref(lastGPS) = okGPS)

\* C9: in connectWithRetry the wait after the k-th consecutive failed Connect
\* is min(2^(k-1), 60) seconds, and once a Connect has succeeded the
\* supervisor has returned and calls Connect no more.
C9_BackoffSchedule ==
    /\ [](\A d \in Devices :
            supPc[d] = "wait" => delay[d] = Min(Pow2(attempt[d] - 1), 60))
    /\ [][\A d \in Devices :
            supPc[d] = "done" => /\ supPc'[d] = "done"
                                 /\ connectCalls'[d] = connectCalls[d]]_vars
    /\ [][\A d \in Devices :
            (supPc[d] = "connect" /\ supPc'[d] # "connect" /\ attempt'[d] = attempt[d])
                => supPc'[d] = "done"]_vars

\* C9 witness: the supervisor waits at the 60 s cap after its 8th failure.
C9_Witness ==
    \E d \in Devices : supPc[d] = "wait" /\ attempt[d] = 8 /\ delay[d] = 60

\* C10: once the cancellation signal has fired every supervisor terminates,
\* whether or not the pending backoff timer ever fires, and no Connect is
\* started after the signal.
C10_CancelTerminates ==
    /\ \A d \in Devices : cancelled ~> supPc[d] = "done"
    /\ [][\A d \in Devices : cancelled => connectCalls'[d] = connectCalls[d]]_vars

\* C10 witness: a supervisor has returned from a backoff wait whose timer
\* never fired.
C10_Witness ==
    \E d \in Devices :
        cancelled /\ supPc[d] = "done" /\ attempt[d] > 0 /\ ~timerFired[d]

\* C11: once Run has returned after a cancellation, the odometer file holds
\* the total and trip that the shutdown flush wrote, or a later snapshot: a
\* restart loads at least the total of the flush.
C11_FlushedAtExit ==
    runPc = "returned" =>
        /\ flushed # Nil
        /\ loadOdometer(odoFile).total >= flushed.total

\* C13: the reset step of handleResetTrip leaves trip_km at 0 and total_km,
\* the last position and the last-valid flag as they were; on an odometer
\* whose trip is already 0 (one that was just reset) it changes nothing.
C13_ResetTrip ==
    [][(svPc["reset"] = "idle" /\ svPc'["reset"] = "snap") =>
           /\ odoTrip' = 0
           /\ odoTotal' = odoTotal
           /\ lastGPSPos' = lastGPSPos /\ lastGPSValid' = lastGPSValid
           /\ ResetTrip(odoTrip') = odoTrip'
           /\ (odoTrip = 0 => odoVars' = odoVars)]_vars

\* C13 witness: the trip was reset on a seeded odometer that had accumulated
\* 3 m, and the handler has not saved yet.
C13_Witness ==
    /\ svPc["reset"] = "snap" /\ odoTrip = 0
    /\ odoTotal = 3 /\ lastGPSValid /\ lastGPSPos = 3

\* C14: while no handleResetTrip is running, the odometer file holds no trip
\* value that was read before the last reset: the trip only grows after a
\* reset, so the trip a restart would load is at most the current trip.
C14_ResetPersists ==
    (svPc["reset"] = "idle" /\ odoFile.exists /\ odoFile.lines # <<>>) =>
        loadOdometer(odoFile).trip <= odoTrip

\* C15: at every instant the odometer file is absent or holds one complete
\* snapshot: two lines, each the text of a number.
C15_AtomicPersist ==
    odoFile.exists =>
        /\ Len(odoFile.lines) = 2
        /\ ParseFloat(odoFile.lines[1]).ok
        /\ ParseFloat(odoFile.lines[2]).ok

\* C16: after server.New, when the odometer file is absent or one of its
\* first two lines is missing or is not the text of a number, total_km and
\* trip_km are both 0.
C16_CorruptSeedsZero ==
    (/\ runPc = "serving"
     /\ \/ ~odoFile.exists
        \/ Len(odoFile.lines) < 2
        \/ ~ParseFloat(odoFile.lines[1]).ok
        \/ ~ParseFloat(odoFile.lines[2]).ok) =>
        (odoTotal = 0 /\ odoTrip = 0)

\* The outbound byte sequences the read-only contract allows: a bare 'Q',
\* 'n' or 'A', a plain 'r' request, or an envelope whose payload begins with
\* one of the four command letters.
ReadOnlyCommands == {81, 114, 110, 65}
ValidOutbound(w) ==
    \/ w \in {<<81>>, <<110>>, <<65>>}
    \/ Len(w) = 7 /\ w[1] = 114
    \/ /\ Len(w) >= 7
       /\ w = wrapMsEnvelope(Slice(w, 2, Len(w) - 4))
       /\ At(w, 2) \in ReadOnlyCommands

\* C17: every byte sequence the driver hands to port.Write, during Connect
\* and during a poll in every protocol mode, is a 'Q', 'r', 'n' or 'A'
\* command, bare or as the first payload byte of an envelope.
C17_ReadOnlyWire ==
    \A k \in 1..Len(txLog) : ValidOutbound(txLog[k])

\* C18: when Connect returns an error after the port was opened, the driver
\* holds no port and is not connected; and a poll of a driver that holds no
\* port returns not-connected and writes nothing to the tty.
C18_FailedConnectClosesPort ==
    /\ (connRet = Err("no valid protocol detected")) =>
           (port = "nil" /\ ~connected)
    /\ (port = "nil" /\ lastIn # Nil /\ "wrOk" \in DOMAIN lastIn) =>
           (drvRet = Err("not connected") /\ txLog = << >>)

\* C18 witness: Connect opened the port, made its probes, failed, and the poll
\* after it was refused.
C18_Witness ==
    /\ connRet = Err("no valid protocol detected")
    /\ lastIn # Nil /\ "wrOk" \in DOMAIN lastIn
    /\ port = "nil" /\ ~connected
    /\ drvRet = Err("not connected") /\ txLog = << >>

\* The last call was a Connect that reached the plain-command phase: the port
\* opened, plain commands are configured and no framed handshake succeeded.
ReachedPlain ==
    /\ lastIn # Nil /\ "opened" \in DOMAIN lastIn /\ lastIn.opened
    /\ protocol \in {"auto", "secondary"}
    /\ protocol = "auto" =>
           (~tryMsEnvelopeQ(lastIn.q) /\ ~tryPrimaryHandshake(lastIn.r))

\* The two-byte signature 6E 32 anywhere in resp; the signature with a length
\* byte after it; the echo byte 41 anywhere in resp.
HasSignature(resp) ==
    \E i \in 1..(Len(resp) - 1) : resp[i] = 110 /\ resp[i + 1] = 50
HasHeader(resp) ==
    \E i \in 1..(Len(resp) - 2) : resp[i] = 110 /\ resp[i + 1] = 50
HasEcho(resp) == \E j \in 1..Len(resp) : resp[j] = 65

Enhanced == connected /\ proto = "protoSecondaryN"
Legacy == connected /\ proto = "protoSecondaryA"

\* 'n' is written, and 'A' only after it and only when 'n' did not succeed.
NBeforeA ==
    /\ \E j \in 1..Len(txLog) : txLog[j] = <<110>>
    /\ \A k \in 1..Len(txLog) :
           txLog[k] = <<65>> =>
               (~Enhanced /\ \E j \in 1..(k - 1) : txLog[j] = <<110>>)

\* C19 as stated: after a Connect that reached the plain-command phase, 'n'
\* was probed before 'A'; the driver is in enhanced sub-mode iff the response
\* to 'n' contains 6E 32, in legacy sub-mode iff it does not and the response
\* to 'A' contains 41, and Connect returned an error iff neither holds.
C19_TwoByteSignature ==
    ReachedPlain =>
        /\ NBeforeA
        /\ Enhanced <=> HasSignature(lastIn.n.rx)
        /\ Legacy <=> (~HasSignature(lastIn.n.rx) /\ HasEcho(lastIn.a.rx))
        /\ IsErr(connRet) <=>
               (~HasSignature(lastIn.n.rx) /\ ~HasEcho(lastIn.a.rx))

\* C19, amended: the 'n' probe succeeds iff the first 3 + 119 bytes of the
\* response contain 6E 32 followed by at least one more byte (the length);
\* the 'A' probe looks at the first 256 bytes.
C19_NThenA ==
    ReachedPlain =>
        LET nOk == HasHeader(Take(lastIn.n.rx, 3 + secondaryNDataSize))
            aOk == HasEcho(Take(lastIn.a.rx, 256))
        IN /\ NBeforeA
           /\ Enhanced <=> nOk
           /\ Legacy <=> (~nOk /\ aOk)
           /\ IsErr(connRet) <=> (~nOk /\ ~aOk)

\* C19 witness: the response to 'n' was 6E 32 and nothing more, the probe
\* failed and the fallback to 'A' put the driver in legacy sub-mode.
C19_Witness ==
    /\ ReachedPlain /\ lastIn.n.rx = <<110, 50>>
    /\ Legacy /\ txLog[Len(txLog)] = <<65>>

\* The replies that are one envelope with a matching CRC, whatever the size.
WellFormedReplies ==
    {io.rx : io \in {r \in TtyReplies :
                        /\ Len(r.rx) >= 6
                        /\ r.rx = wrapMsEnvelope(Slice(r.rx, 2, Len(r.rx) - 4))}}

\* The last call was a framed-mode poll that was answered by one envelope
\* with a matching CRC.
FramedPollAnswered ==
    /\ lastIn # Nil /\ "wrOk" \in DOMAIN lastIn /\ lastIn.wrOk
    /\ connected /\ port = "open" /\ proto = "protoPrimary"
    /\ lastIn.rx \in WellFormedReplies

\* The parser's result on the 130 bytes C20 names for a payload of n bytes.
BlockOf(pl) ==
    LET n == Len(pl) IN
    IF n = 130 THEN parsePrimaryData(pl)
    ELSE IF n = 131 THEN parsePrimaryData(Slice(pl, 1, 131))
    ELSE parsePrimaryData(Slice(pl, n - 130, n))

\* C20 as stated: a framed poll answered with a CRC-valid payload of n bytes
\* succeeds iff n >= 130, on the payload (n = 130), the payload without its
\* first byte (n = 131) or its trailing 130 bytes (n > 131); n < 130 gives a
\* payload-size error.
C20_AnySizeFrom130 ==
    FramedPollAnswered =>
        LET pl == Slice(lastIn.rx, 2, Len(lastIn.rx) - 4) IN
        IF Len(pl) >= 130 THEN drvRet = BlockOf(pl)
        ELSE drvRet = Err("unexpected payload size")

\* C20, amended: the same for 130 <= n <= 1024; a payload of more than 1024
\* bytes is rejected by readMsEnvelopeResponse before it is read.
C20_SizeFrom130To1024 ==
    FramedPollAnswered =>
        LET pl == Slice(lastIn.rx, 2, Len(lastIn.rx) - 4) IN
        IF Len(pl) > 1024 THEN drvRet = Err("invalid payload size")
        ELSE IF Len(pl) >= 130 THEN drvRet = BlockOf(pl)
        ELSE drvRet = Err("unexpected payload size")

\* C20 witness: a payload of 200 bytes was answered and the frame was parsed
\* from its trailing 130 bytes.
C20_Witness ==
    /\ FramedPollAnswered /\ Len(lastIn.rx) = 206
    /\ drvRet = [vss |-> 7]

\* C12: at the step in which Run returns after the cancellation (main returns
\* right after it), the ECU driver holds no open port.
C12_PortClosedAtExit ==
    [][(runPc = "serving" /\ runPc' = "returned") => port' = "nil"]_vars

\* The last call was a poll in plain enhanced sub-mode that reached the tty.
PlainEnhancedPolled ==
    /\ lastIn # Nil /\ "wrOk" \in DOMAIN lastIn
    /\ connected /\ port = "open" /\ proto = "protoSecondaryN"

\* C21: a plain-enhanced poll returns a DataFrame exactly when the command was
\* written and the bytes that arrived before the deadline start with 6E 32 L,
\* 0 < L < 256, followed by at least L bytes, and the DataFrame is parsed from
\* those L bytes; L = 0, a wrong echo, a wrong type or fewer than L data bytes
\* gives an error and no DataFrame.
C21_PlainEnhancedPoll ==
    PlainEnhancedPolled =>
        LET rx == lastIn.rx
            headerOk == /\ Len(rx) >= 3 /\ rx[1] = 110 /\ rx[2] = 50
                        /\ 0 < rx[3] /\ rx[3] < 256
                        /\ Len(rx) >= 3 + rx[3]
        IN IF lastIn.wrOk /\ headerOk
             THEN drvRet = parseSecondaryData(SubSeq(rx, 4, 3 + rx[3]))
             ELSE IsErr(drvRet)

\* C21 witness: the header 6E 32 77 and 119 data bytes arrived and the poll
\* returned the DataFrame parsed from them.
C21_Witness ==
    /\ PlainEnhancedPolled /\ lastIn.wrOk
    /\ Len(lastIn.rx) = 122 /\ SubSeq(lastIn.rx, 1, 3) = <<110, 50, 119>>
    /\ drvRet = [vss |-> 55]

\* The bytes of the payload each field of parseSecondaryData is read from, as
\* <<field, offset, width>>, for a payload of n bytes (VE1 is read from byte 18,
\* and from byte 113 when n > 75).
secondaryLayout(n) ==
    { <<"Secl", 0, 1>>, <<"DFCOOn", 1, 1>>, <<"Running", 2, 1>>,
      <<"Cranking", 2, 1>>, <<"ASE", 2, 1>>, <<"Warmup", 2, 1>>,
      <<"Dwell", 3, 1>>, <<"MAP", 4, 2>>, <<"IAT", 6, 1>>, <<"Coolant", 7, 1>>,
      <<"BatCorrection", 8, 1>>, <<"BatteryVoltage", 9, 1>>, <<"AFR", 10, 1>>,
      <<"EGOCorrection", 11, 1>>, <<"AirCorrection", 12, 1>>,
      <<"WarmupEnrich", 13, 1>>, <<"RPM", 14, 2>>, <<"AccelEnrich", 16, 1>>,
      <<"GammaEnrich", 17, 1>>, <<"VECurr", 18, 1>>,
      <<"VE1", IF n > 75 THEN 113 ELSE 18, 1>>, <<"AFRTarget", 19, 1>>,
      <<"PulseWidth1", 20, 2>>, <<"Advance", 23, 1>>, <<"TPS", 24, 1>>,
      <<"LoopsPerSecond", 25, 2>>, <<"FreeRAM", 27, 2>>,
      <<"BoostTarget", 29, 1>>, <<"BoostDuty", 30, 1>>, <<"Sync", 31, 1>>,
      <<"RPMdot", 32, 2>>, <<"FlexPct", 34, 1>>, <<"FlexFuelCor", 35, 1>>,
      <<"FlexIgnCor", 36, 1>>, <<"IdleLoad", 37, 1>>, <<"AFR2", 39, 1>>,
      <<"Baro", 40, 1>>, <<"Errors", 74, 1>>, <<"PulseWidth2", 76, 2>>,
      <<"PulseWidth3", 78, 2>>, <<"PulseWidth4", 80, 2>>,
      <<"FuelLoad", 84, 2>>, <<"IgnLoad", 86, 2>>, <<"CLIdleTarget", 91, 1>>,
      <<"MAPdot", 92, 1>>, <<"VVT1Angle", 93, 1>>, <<"VVT1Target", 94, 1>>,
      <<"VVT1Duty", 95, 1>>, <<"BaroCorrection", 98, 1>>, <<"ASECurr", 99, 1>>,
      <<"VSS", 100, 2>>, <<"Gear", 102, 1>>, <<"FuelPressure", 103, 1>>,
      <<"OilPressure", 104, 1>>, <<"FanStatus", 106, 1>>,
      <<"VVT2Angle", 107, 1>>, <<"VVT2Target", 108, 1>>,
      <<"VVT2Duty", 109, 1>>, <<"VE2", 114, 1>>, <<"Advance1", 115, 1>>,
      <<"Advance2", 116, 1>>, <<"SDStatus", 118, 1>> }

\* The last call was parseSecondaryData on lastIn.payload.
Parsed == lastIn # Nil /\ "payload" \in DOMAIN lastIn

\* The fields of the returned DataFrame whose bytes are not all in the payload.
MissingFields ==
    {e[1] : e \in {x \in secondaryLayout(Len(lastIn.payload)) :
                      x[2] + x[3] > Len(lastIn.payload)}}

\* The zero value of a field: false for a status bit, 0 for a number.
StatusBits == {"DFCOOn", "Running", "Cranking", "ASE", "Warmup", "Sync",
               "FanStatus"}
ZeroOf(f) == IF f \in StatusBits THEN FALSE ELSE 0

\* C22 as stated: parsing a plain-mode payload of 0..255 bytes never fails,
\* and every field whose source bytes are not all inside the payload is zero.
C22_MissingIsZero ==
    Parsed => /\ ~IsErr(drvRet)
              /\ DOMAIN drvRet = {e[1] : e \in secondaryLayout(0)}
              /\ \A f \in MissingFields : drvRet[f] = ZeroOf(f)

\* C22, amended: the same, with a missing byte read as zero before the
\* field's scaling is applied: every such field is zero except IAT and
\* Coolant, which are raw - 40 and so -40.
C22_MissingReadsAsZero ==
    Parsed => /\ ~IsErr(drvRet)
              /\ DOMAIN drvRet = {e[1] : e \in secondaryLayout(0)}
              /\ \A f \in MissingFields :
                    IF f \in {"IAT", "Coolant"} THEN drvRet[f] = -40
                    ELSE drvRet[f] = ZeroOf(f)

\* C22 witness: a legacy-sized payload of 75 bytes, none of them zero, was
\* parsed: RPM was read from it and VSS, at offset 100, is zero.
C22_Witness ==
    /\ Parsed /\ Len(lastIn.payload) = 75 /\ lastIn.payload[1] = 255
    /\ drvRet.RPM = 65535 /\ drvRet.Advance = -1 /\ drvRet.VSS = 0
    /\ "VSS" \in MissingFields /\ "RPM" \notin MissingFields

\* The envelope of lastIn.wrap was written and read back.
LoopedBack == lastIn # Nil /\ "wrap" \in DOMAIN lastIn /\ txLog # << >>

\* The frame on the wire is the 2-byte big-endian length of the payload, the
\* payload and four more bytes.
FrameShape ==
    LET p == lastIn.wrap
        f == txLog[1]
    IN /\ Len(f) = Len(p) + 6
       /\ f[1] * 256 + f[2] = Len(p)
       /\ SubSeq(f, 3, Len(p) + 2) = p

\* C23 as stated: for every payload of at most 1024 bytes, reading the frame
\* wrapMsEnvelope produced returns exactly that payload without error.
C23_RoundTripUpTo1024 ==
    (LoopedBack /\ Len(lastIn.wrap) <= 1024) =>
        FrameShape /\ drvRet = [payload |-> lastIn.wrap]

\* C23, amended: the same for every payload of 1 to 1024 bytes; the frame of
\* the empty payload is rejected for its size.
C23_RoundTripFrom1To1024 ==
    (LoopedBack /\ Len(lastIn.wrap) <= 1024) =>
        /\ FrameShape
        /\ IF Len(lastIn.wrap) = 0 THEN drvRet = Err("invalid payload size")
           ELSE drvRet = [payload |-> lastIn.wrap]

\* C23 witness: the text "123456789" went through; its frame ends with the
\* big-endian CRC-32 CB F4 39 26 of the payload alone.
C23_Witness ==
    /\ LoopedBack /\ lastIn.wrap = <<49, 50, 51, 52, 53, 54, 55, 56, 57>>
    /\ txLog[1] = <<0, 9>> \o lastIn.wrap \o <<203, 244, 57, 38>>
    /\ drvRet = [payload |-> lastIn.wrap]

\* C24: a fix handed out by one poll is a value of its own: while a later
\* Read merges RMC and GGA sentences and has not returned, the fix seen
\* through the latest-GPS cell, and the fix of the frame the broadcast ticker
\* built, stay what they were.
C24_FixIsValueCopy ==
    [][(gpsPc = "read" /\ gpsPc' = "read") =>
          /\ lastGPS # Nil => Deref(lastGPS)' = Deref(lastGPS)
          /\ (lastFrame # Nil /\ lastFrame' = lastFrame) =>
                Deref(lastFrame.gps)' = Deref(lastFrame.gps)]_vars

GpsOnlyFrame ==
    lastFrame # Nil /\ lastFrame.gps # Nil /\ lastFrame.ecu = Nil

\* C26 as stated: while the ECU never connects, each valid fix a GPS poll
\* returns is eventually published in a frame with gps present, ecu absent
\* and speed source gps.
C26_EachFixPublished ==
    \A p \in {0, 3} :
        (okGPS # Nil /\ okGPS.valid /\ okGPS.pos = p)
            ~> (/\ GpsOnlyFrame
                /\ lastFrame.gpsSeen.valid /\ lastFrame.gpsSeen.pos = p
                /\ lastFrame.speed.source = "gps")

\* C26, amended: while the ECU never connects, once a GPS poll has succeeded
\* a frame with gps present and ecu absent is eventually published; every
\* published frame has ecu absent and speed source gps exactly when the fix
\* the tick read is valid; and a valid moving fix more than minMove and at
\* most glitchJump away from the last position adds its distance to the
\* odometer.
C26_GpsOnlyKeepsPublishing ==
    /\ (lastGPS # Nil) ~> GpsOnlyFrame
    /\ [](lastFrame # Nil =>
            /\ lastFrame.ecu = Nil /\ lastFrame.gps # Nil
            /\ lastFrame.speed.source = "gps" <=> lastFrame.gpsSeen.valid
            /\ lastFrame.speed.source = "gps" =>
                  lastFrame.speed.value = lastFrame.gpsSeen.speed)
    /\ [][(gpsPc = "read" /\ gpsPc' = "idle" /\ FeedsOdometer(gpsLast)
             /\ lastGPSValid
             /\ haversineKm(lastGPSPos, gpsLast.pos) > minMove
             /\ haversineKm(lastGPSPos, gpsLast.pos) <= glitchJump) =>
                odoTotal' = odoTotal + haversineKm(lastGPSPos, gpsLast.pos)]_vars

\* C26 witness: every ECU poll so far failed, Connect failed, and a frame with
\* a valid fix at the second position, no ECU data and speed source gps was
\* published after the odometer had advanced by the distance between the two.
C26_Witness ==
    /\ IsErr(drvRet) /\ IsErr(connRet) /\ lastECU = Nil
    /\ GpsOnlyFrame /\ lastFrame.speed = [value |-> 30, source |-> "gps"]
    /\ lastFrame.gpsSeen.pos = 3 /\ odoTotal = 3

\* The protocol mode of the driver and the state after a successful Connect.
Mode == IF proto = "protoPrimary" THEN "framed" ELSE "plain"
ConnectOk == connected /\ connRet = [ok |-> TRUE]

\* A call of Connect on some tty that succeeds and ends in framed mode, and
\* one that succeeds and ends in plain mode.
ConnectsFramed ==
    (\E tty \in ConnectTtys : Connect(tty)) /\ connected' /\ proto' = "protoPrimary"
ConnectsPlain ==
    (\E tty \in ConnectTtys : Connect(tty)) /\ connected' /\ proto' # "protoPrimary"

\* C27 as stated: for a given configuration the mode in which a successful
\* Connect ends is the same whatever the ECU answers to the probes: in no
\* state can Connect end in framed mode on some answers and in plain mode on
\* others.
C27_ModeFixedByConfig == ~(ENABLED ConnectsFramed /\ ENABLED ConnectsPlain)

\* C27, amended: configured as "msenvelope" a successful Connect ends in framed
\* mode and configured as "secondary" in plain mode, whatever the ECU answers;
\* configured as "auto" it ends in framed mode when the ECU answered the
\* framed Q or r probe and in plain mode otherwise. RequestData never changes
\* the mode.
C27_ModeByConfigOrDetected ==
    /\ [](ConnectOk =>
            /\ protocol = "msenvelope" => Mode = "framed"
            /\ protocol = "secondary" => Mode = "plain"
            /\ (protocol = "auto" /\ "opened" \in DOMAIN lastIn) =>
                  (Mode = "framed" <=>
                      (tryMsEnvelopeQ(lastIn.q) \/ tryPrimaryHandshake(lastIn.r))))
    /\ [][connected => proto' = proto]_vars

\* C27 witness: configured as "auto", the ECU left the framed probes
\* unanswered and answered 'n', and Connect ended in plain mode.
C27_Witness ==
    /\ ConnectOk /\ protocol = "auto" /\ Mode = "plain"
    /\ "opened" \in DOMAIN lastIn /\ lastIn.q = NoReply /\ lastIn.n # NoReply

\* C28: operations on the ECU driver serialize: while a Connect handshake is
\* in progress no other operation does I/O on the tty, and none closes or
\* clears the port.
HandshakeUndisturbed ==
    (connRet = Running /\ connRet' = Running) =>
        /\ port' = port
        /\ txLog' # << >> => UNCHANGED txLog
C28_OperationsSerialize == [][HandshakeUndisturbed]_vars

\* C29: a failed ECU poll does not stop the ECU poller: the next tick polls
\* the tty again, and when the ECU then answers correctly the latest-ECU cell
\* takes the new frame, with no further Connect.
GoodPrimary == Reply(wrapMsEnvelope(OCHBlock(55)))
CorrectAnswers(mode) ==
    CASE mode = "protoSecondaryN" ->
           {Reply(<<110, 50, secondaryNDataSize>>
                    \o SecBlock(secondaryNDataSize, v)) : v \in {0, 55}}
      [] mode = "protoSecondaryA" -> {GoodA}
      [] mode = "protoPrimary" -> {GoodPrimary}
      [] OTHER -> {}
AnsweredAfterFailure ==
    (WireFailure(drvRet) /\ lastIn' \in CorrectAnswers(proto)) =>
        /\ txLog' = <<requestWrite>>
        /\ ~IsErr(drvRet')
        /\ lastECU' = drvRet'
        /\ UNCHANGED <<connRet, connected, port, proto>>
C29_PollerSurvivesFailure == [][AnsweredAfterFailure]_vars
C29_Witness ==
    /\ WireFailure(drvRet) /\ lastECU = [vss |-> 0]
    /\ ENABLED (/\ \E io \in CorrectAnswers(proto) : EcuPoll(io)
                /\ lastECU' = [vss |-> 55])

\* C30: no frame is sent on a subscriber's queue after the queue was closed:
\* a closed queue belongs to a subscriber that has left the subscriber set,
\* and no broadcast in progress still has it to visit.
C30_NoSendAfterClose ==
    /\ ~sendPanic
    /\ \A c \in Clients :
         chClosed[c] =>
            /\ c \notin clients
            /\ wsPc[c] = "closed"
            /\ \A b \in Broadcasters : c \notin bTodo[b]
C30_Witness ==
    \E c \in Clients, b \in Broadcasters :
        /\ chClosed[c]
        /\ bPc[b] = "send" /\ bTodo[b] # {}
        /\ KindOf(b) = "conf"

\* C31: registering a subscriber always completes: whenever handleWS stands
\* before the send of the initial configuration frame, the send can proceed.
\* (No writer runs before that send, so a queue found full there stays full.)
C31_RegistrationCompletes ==
    \A c \in Clients :
        (wsPc[c] = "reg" /\ ~writerOn[c]) => ENABLED HandleWSSendConfig(c)

\* C32: whatever calls of Connect, RequestData and Close were made, a driver
\* that is connected holds an open port.
C32_ConnectedHasPort == connected => port = "open"

\* C33: the total stored in the odometer file never decreases from one
\* completed write of the file to a later completed write.
FileTotalGrows ==
    (written # Nil /\ written' # Nil) => written'.total >= written.total
C33_FileTotalMonotone == [][FileTotalGrows]_vars

\* C34: the latest-ECU cell is never cleared, and once a broadcast tick has
\* published a frame with ecu present every later published frame carries
\* the ECU frame of the most recent successful poll, whose vss (when above
\* 0) is the fused speed.
StaleEcuPublished ==
    /\ lastECU # Nil => lastECU' # Nil
    /\ (lastFrame # Nil /\ lastFrame.ecu # Nil /\ lastFrame' # lastFrame) =>
          /\ lastFrame'.ecu # Nil
          /\ lastFrame'.ecu = okECU
          /\ okECU.vss > 0 =>
                lastFrame'.speed = [value |-> okECU.vss, source |-> "vss"]
C34_EcuStaysPublished == [][StaleEcuPublished]_vars
C34_Witness ==
    /\ WireFailure(drvRet)
    /\ lastFrame # Nil /\ lastFrame.ecu = [vss |-> 0]
    /\ okECU = [vss |-> 55]
    /\ ENABLED (/\ BroadcastTick
                /\ lastFrame'.ecu = [vss |-> 55]
                /\ lastFrame'.speed = [value |-> 55, source |-> "vss"])

\* C35: a GPS poll during which no complete line arrives returns the previous
\* fix unchanged and without error, and the decoder stays usable: whenever a
\* poll is in its read loop, a sentence that arrives is parsed.
SilentPoll == gpsPc = "read" /\ nLines = 0 /\ gpsPc' = "idle"
SilentPollKeepsFix == SilentPoll => (gpsLast' = gpsLast /\ lastGPS' = Ref)
DecoderUsable == ReadLoopOn => ENABLED (\E r \in RmcPoll : GpsReadRMC(r))
C35_SilentPollKeepsDecoder == [][SilentPollKeepsFix /\ DecoderUsable]_vars

\* C36: an odometer update with a fix at distance d from the stored last
\* position adds to the counters iff a last position is stored and
\* minMove < d <= glitchJump, and then adds exactly d to total and to trip;
\* in every other case neither counter changes.
OdometerUpdated == lastGPS' = Ref /\ FeedsOdometer(gpsLast')
Moved == haversineKm(lastGPSPos, gpsLast'.pos)
Accumulates == lastGPSValid /\ Moved > minMove /\ Moved <= glitchJump
C36_AccumulatesIffInRange ==
    [][OdometerUpdated =>
         /\ Accumulates =>
               (odoTotal' = odoTotal + Moved /\ odoTrip' = odoTrip + Moved)
         /\ ~Accumulates =>
               (odoTotal' = odoTotal /\ odoTrip' = odoTrip)]_vars
C36_Witness ==
    /\ lastGPSValid /\ lastGPSPos = 2 /\ odoTotal = 0
    /\ ENABLED (/\ \E fix \in MoveFixes : GpsTick(fix)
                /\ gpsLast'.pos = 502 /\ odoTotal' = 500 /\ odoTrip' = 500)

\* C37: an odometer update replaces the stored last position with the fix iff
\* no position was stored yet or the fix is more than minMove away; a fix
\* within minMove leaves the stored position and the counters as they were.
C37_PositionHeldOrReplaced ==
    [][OdometerUpdated =>
         /\ lastGPSValid'
         /\ (~lastGPSValid \/ Moved > minMove) => lastGPSPos' = gpsLast'.pos
         /\ (lastGPSValid /\ Moved <= minMove) =>
               /\ lastGPSPos' = lastGPSPos
               /\ odoTotal' = odoTotal /\ odoTrip' = odoTrip]_vars
C37_Witness ==
    /\ lastGPSValid /\ lastGPSPos = 0 /\ odoTotal = 0
    /\ okGPS # Nil /\ okGPS.pos = 2 /\ FeedsOdometer(okGPS)
    /\ ENABLED (/\ \E fix \in MoveFixes : GpsTick(fix)
                /\ gpsLast'.pos = 3 /\ odoTotal' = 3 /\ lastGPSPos' = 3)

\* C38: the configured protocol restricts the probes Connect writes. With
\* "msenvelope" every write is an envelope frame and only framed mode is
\* reached; with "secondary" no write is an envelope frame and only a plain
\* sub-mode is reached; with "auto" no envelope frame follows a plain write,
\* and plain bytes are written only after the 'Q' and the 'r' envelope probe
\* were both written and both failed.
Framed(w) == Len(w) >= 6 /\ w = wrapMsEnvelope(Slice(w, 2, Len(w) - 4))
AfterConnect == lastIn # Nil /\ "opened" \in DOMAIN lastIn /\ lastIn.opened
C38_ProbesFollowProtocol ==
    AfterConnect =>
       /\ protocol = "msenvelope" =>
             /\ \A i \in 1..Len(txLog) : Framed(txLog[i])
             /\ connected => proto = "protoPrimary"
       /\ protocol = "secondary" =>
             /\ \A i \in 1..Len(txLog) : ~Framed(txLog[i])
             /\ connected => proto \in {"protoSecondaryN", "protoSecondaryA"}
       /\ protocol = "auto" =>
             /\ \A i, j \in 1..Len(txLog) :
                   (i < j /\ ~Framed(txLog[i])) => ~Framed(txLog[j])
             /\ (\E i \in 1..Len(txLog) : ~Framed(txLog[i])) =>
                   /\ Len(txLog) > 2
                   /\ txLog[1] = buildMsEnvelopeCmd(81)
                   /\ txLog[2] = buildMsEnvelope(0, 4)
                   /\ ~tryMsEnvelopeQ(lastIn.q)
                   /\ ~tryPrimaryHandshake(lastIn.r)
C38_Witness ==
    /\ AfterConnect /\ protocol = "msenvelope"
    /\ IsErr(connRet) /\ ~connected
    /\ txLog = <<buildMsEnvelopeCmd(81), buildMsEnvelope(0, 4)>>

\* ---------------------------------------------------------------------
\* NMEA line validation (part_004, NMEAProvider.Read and helpers). A line
\* is the sequence of its bytes.

Dollar == <<36>>
Star == 42
Comma == 44

IsSpace(b) == b \in {9, 10, 11, 12, 13, 32}

\* strings.TrimSpace
RECURSIVE TrimSpace(_)
TrimSpace(s) ==
    IF s = <<>> THEN s
    ELSE IF IsSpace(s[1]) THEN TrimSpace(Tail(s))
    ELSE IF IsSpace(s[Len(s)]) THEN TrimSpace(SubSeq(s, 1, Len(s) - 1))
    ELSE s

\* strings.HasPrefix
HasPrefix(s, p) == Len(s) >= Len(p) /\ SubSeq(s, 1, Len(p)) = p

\* strings.Index for a one-byte needle: 0-based index of the first b, or -1.
IndexByte(s, b) ==
    IF \E i \in 1..Len(s) : s[i] = b
    THEN (CHOOSE i \in 1..Len(s) : s[i] = b /\ \A j \in 1..(i - 1) : s[j] # b) - 1
    ELSE -1

\* strings.Split(s, ","): the fields of s from position lo on, hi being the
\* scanning position.
RECURSIVE SplitFrom(_, _, _)
SplitFrom(s, lo, hi) ==
    IF hi > Len(s) THEN <<SubSeq(s, lo, Len(s))>>
    ELSE IF s[hi] = Comma
         THEN <<SubSeq(s, lo, hi - 1)>> \o SplitFrom(s, hi + 1, hi + 1)
         ELSE SplitFrom(s, lo, hi + 1)

SplitComma(s) == CHOOSE r \in {SplitFrom(b, 1, 1) : b \in {s}} : TRUE

\* Value of one hex digit as strconv.ParseUint(_, 16, _) reads it, or -1.
HexVal(b) ==
    IF b \in 48..57 THEN b - 48
    ELSE IF b \in 65..70 THEN b - 55
    ELSE IF b \in 97..102 THEN b - 87
    ELSE -1

\* XOR of all the bytes of body (the `calc ^= body[i]` loop).
RECURSIVE XorFrom(_, _, _)
XorFrom(calc, body, i) ==
    IF i > Len(body) THEN calc
    ELSE CHOOSE r \in {XorFrom(n, body, i + 1) : n \in {Xor(calc, body[i])}} : TRUE

XorAll(body) == XorFrom(0, body, 1)

\* The checksum test without the comparison: any two hex digits pass.
validateNMEAChecksumAnyDigits(line) ==
    LET idx == IndexByte(line, Star) IN
    IF idx < 0 \/ idx + 3 > Len(line) THEN FALSE
    ELSE HexVal(line[idx + 2]) >= 0 /\ HexVal(line[idx + 3]) >= 0

\* validateNMEAChecksum: the first '*' must be followed by two characters
\* that parse as a hex byte equal to the XOR of line[1:idx].
validateNMEAChecksum(line) ==
    LET idx == IndexByte(line, Star) IN
    IF idx < 0 \/ idx + 3 > Len(line) THEN FALSE
    ELSE LET calc == XorAll(Slice(line, 1, idx))
             hi == HexVal(line[idx + 2])
             lo == HexVal(line[idx + 3])
         IN  IF hi < 0 \/ lo < 0 THEN FALSE
             ELSE 16 * hi + lo = calc

\* splitNMEA: cut at the first '*', drop the leading '$', split on ','.
splitNMEA(line) ==
    LET idx == IndexByte(line, Star)
        cut == IF idx >= 0 THEN SubSeq(line, 1, idx) ELSE line
        body == IF HasPrefix(cut, Dollar) THEN Tail(cut) ELSE cut
    IN  SplitComma(body)

\* strconv.Atoi on an unsigned run of digits; an error record otherwise.
RECURSIVE DigitsVal(_)
DigitsVal(s) == IF s = <<>> THEN 0
                ELSE 10 * DigitsVal(SubSeq(s, 1, Len(s) - 1)) + (s[Len(s)] - 48)

Atoi(s) == IF s # <<>> /\ \A i \in 1..Len(s) : s[i] \in 48..57
           THEN [val |-> DigitsVal(s)] ELSE Err("invalid syntax")

\* What parseRMC leaves in n.last, as the record GpsReadRMC takes. With
\* fewer than 10 parts nothing is written. The sentences of GpsLines carry
\* empty coordinate and speed fields: parseNMEACoord returns 0 for an empty
\* field and ParseFloat fails on one, which keeps the previous speed.
parseRMC(line) ==
    LET parts == splitNMEA(line) IN
    IF Len(parts) < 10
    THEN [valid |-> gpsLast.valid, pos |-> gpsLast.pos, speed |-> gpsLast.speed]
    ELSE [valid |-> parts[3] = <<65>>, pos |-> 0, speed |-> gpsLast.speed]

\* What parseGGA leaves in n.last.Satellites.
parseGGA(line) ==
    LET parts == splitNMEA(line) IN
    IF Len(parts) < 11 \/ IsErr(Atoi(parts[8])) THEN gpsLast.sats
    ELSE Atoi(parts[8]).val

RmcTag == {<<36, 71, 80, 82, 77, 67>>, <<36, 71, 78, 82, 77, 67>>}
GgaTag == {<<36, 71, 80, 71, 71, 65>>, <<36, 71, 78, 71, 71, 65>>}

\* One pass of Read's loop body over the scanned text `raw`.
GpsReadLine(raw) ==
    \E line \in {TrimSpace(raw)} :
        IF ~HasPrefix(line, Dollar) THEN GpsReadSkip
        ELSE IF ~validateNMEAChecksum(line) THEN GpsReadSkip
        ELSE IF \E t \in RmcTag : HasPrefix(line, t)
             THEN \E r \in {parseRMC(line)} : GpsReadRMC(r)
        ELSE IF \E t \in GgaTag : HasPrefix(line, t)
             THEN \E n \in {parseGGA(line)} : GpsReadGGA(n)
        ELSE GpsReadSkip

\* Sentences fed to the reader.
HexDigit(n) == IF n < 10 THEN 48 + n ELSE 55 + n
Hex2(v) == <<HexDigit(v \div 16), HexDigit(v % 16)>>
Sentence(body) == Dollar \o body \o <<Star>> \o Hex2(XorAll(body))
WrongSum(body) == Dollar \o body \o <<Star>> \o Hex2(Xor(XorAll(body), 1))

RmcFix == <<71, 80, 82, 77, 67, 44, 44, 65, 44, 44, 44, 44, 44, 44, 44>>
RmcVoid == <<71, 80, 82, 77, 67, 44, 44, 86, 44, 44, 44, 44, 44, 44, 44>>
GgaSeven == <<71, 80, 71, 71, 65, 44, 44, 44, 44, 44, 44, 49, 44, 55, 44, 44, 44>>
GgaTwelve == <<71, 78, 71, 71, 65, 44, 44, 44, 44, 44, 44, 50, 44, 49, 50, 44, 44, 44>>

GoodLines == {Sentence(RmcFix), Sentence(RmcVoid), Sentence(GgaSeven),
              Sentence(GgaTwelve), Sentence(RmcFix) \o <<13>>}
GpsLines ==
    GoodLines \cup
    { Tail(Sentence(RmcFix)),                     \* no '$'
      Dollar \o RmcFix,                           \* no '*'
      Dollar \o GgaSeven \o <<Star, 52>>,          \* one character after '*'
      Dollar \o RmcFix \o <<Star, 90, 90>>,        \* not hex digits
      WrongSum(RmcFix), WrongSum(GgaSeven),
      Sentence(RmcFix) \o <<120>>,                \* text after the checksum
      Sentence(GgaSeven) \o <<44, 49>> }

NextLines ==
    \/ GpsConnect
    \/ GpsReadBegin
    \/ \E raw \in GpsLines : GpsReadLine(raw)
    \/ GpsReadReturn

SpecLines == Init /\ [][NextLines]_vars

NoDollar(line) == ~HasPrefix(line, Dollar)

\* The line does not end in '*' and two hex digits.
NoStarHHSuffix(line) ==
    ~(/\ Len(line) >= 3
      /\ line[Len(line) - 2] = Star
      /\ HexVal(line[Len(line) - 1]) >= 0
      /\ HexVal(line[Len(line)]) >= 0)

\* The first '*' of the line is not followed by two hex digits.
NoStarHH(line) ==
    LET idx == IndexByte(line, Star) IN
    \/ idx < 0
    \/ idx + 3 > Len(line)
    \/ HexVal(line[idx + 2]) < 0
    \/ HexVal(line[idx + 3]) < 0

\* The two hex digits after '*' differ from the XOR of the bytes between
\* '$' and '*'.
SumDiffers(line) ==
    /\ ~NoStarHH(line)
    /\ LET idx == IndexByte(line, Star) IN
       16 * HexVal(line[idx + 2]) + HexVal(line[idx + 3])
         # XorAll(Slice(line, 1, idx))

\* Reading raw changes the fix or counts as the awaited RMC or GGA.
LineCounts(raw) ==
    ENABLED (/\ GpsReadLine(raw)
             /\ <<gpsLast, gotRMC, gotGGA>>' # <<gpsLast, gotRMC, gotGGA>>)

\* C39 (as stated): a line that does not start with '$', that does not end
\* in '*HH', or whose two hex digits differ from the XOR of the bytes
\* between '$' and '*', changes no field of the fix and does not count as
\* the RMC or the GGA of the poll.
C39_SuffixlessLinesDiscarded ==
    \A raw \in GpsLines : \A line \in {TrimSpace(raw)} :
        (NoDollar(line) \/ NoStarHHSuffix(line) \/ SumDiffers(line))
            => ~LineCounts(raw)

\* C39 (amended): a line that does not start with '$', whose first '*' is
\* not followed by two hex digits, or whose two hex digits differ from the
\* XOR of the bytes between '$' and '*', changes no field of the fix and
\* does not count as the RMC or the GGA of the poll; text after the two
\* digits is not looked at.
C39_BadLinesDiscarded ==
    \A raw \in GpsLines : \A line \in {TrimSpace(raw)} :
        (NoDollar(line) \/ NoStarHH(line) \/ SumDiffers(line))
            => ~LineCounts(raw)

\* A poll that has scanned only discarded lines: the loop is on its second
\* line with neither sentence seen and no fix, and an RMC line reporting a
\* fix under a wrong checksum is next.
C39_Witness ==
    /\ ReadLoopOn /\ ~scanStopped
    /\ nLines >= 1 /\ ~gotRMC /\ ~gotGGA
    /\ ~gpsLast.valid
    /\ SumDiffers(WrongSum(RmcFix))
    /\ ENABLED GpsReadLine(WrongSum(RmcFix))

\* ---------------------------------------------------------------------
\* C40 (as stated): for every plain-mode payload, legacy and enhanced
\* alike, parseSecondaryData sets VE1 and VECurr to the same value, the
\* byte at offset 18.
C40_VE1EqualsVECurr ==
    Parsed => /\ drvRet.VECurr = u8(lastIn.payload, 18)
              /\ drvRet.VE1 = drvRet.VECurr

\* C40 (amended): VECurr is always the byte at offset 18; VE1 is that same
\* value for a payload of at most 75 bytes and the byte at offset 113 for a
\* longer one (a byte the payload lacks reads as 0).
C40_VE1FollowsLength ==
    Parsed => /\ drvRet.VECurr = u8(lastIn.payload, 18)
              /\ Len(lastIn.payload) <= 75 => drvRet.VE1 = drvRet.VECurr
              /\ Len(lastIn.payload) > 75
                    => drvRet.VE1 = u8(lastIn.payload, 113)

\* C40 witness: an enhanced payload of 122 bytes counting up from 1 was
\* parsed: VECurr is 19, the byte at offset 18, and VE1 is 114, the byte at
\* offset 113.
C40_Witness ==
    /\ Parsed
    /\ Len(lastIn.payload) = 122
    /\ drvRet.VECurr = 19
    /\ drvRet.VE1 = 114
=============================================================================
